---- MODULE Spec2Model ----
(***************************************************************************)
(* Model of next-passport's request pipeline: the authenticate middleware  *)
(* (src/src/middleware/authenticate.ts), the request extensions            *)
(* (src/src/http/request.ts) and the session manager                       *)
(* (src/src/sessionmanager.ts).                                            *)
(*                                                                         *)
(* Node runs one callback at a time: every action below is one callback    *)
(* run to completion (a middleware call, a strategy signalling an action,  *)
(* a session or chain callback).  Work that is still pending is a task in  *)
(* the bag `tasks`.                                                        *)
(***************************************************************************)
EXTENDS Integers, Sequences, FiniteSets, Bags, TLC

\* Longest specifier list that is explored.
MaxLen == 2

\* Number of requests in flight at once in the concurrent specification.
MaxRequests == 2

\* Most action signals one strategy invocation makes in SpecRepeat; at most
\* MaxSignals - 1 repeated signals reach one request.
MaxSignals == 2

------------------------------------------------------------------------------
\* JavaScript values.  t is the typeof tag ("strategy" is an object that has
\* an authenticate function, "array" an Array), n the number, s the string or
\* the object's identity, a the elements of an array.

Undefined == [t |-> "undefined", n |-> 0, s |-> "", a |-> <<>>]
Null == [t |-> "null", n |-> 0, s |-> "", a |-> <<>>]
Num(k) == [t |-> "number", n |-> k, s |-> "", a |-> <<>>]
Str(x) == [t |-> "string", n |-> 0, s |-> x, a |-> <<>>]
Bool(b) == [t |-> "boolean", n |-> IF b THEN 1 ELSE 0, s |-> "", a |-> <<>>]
Obj(x) == [t |-> "object", n |-> 0, s |-> x, a |-> <<>>]
Arr(items) == [t |-> "array", n |-> 0, s |-> "", a |-> items]
StrategyObj(x) == [t |-> "strategy", n |-> 0, s |-> x, a |-> <<>>]
Fn(x) == [t |-> "function", n |-> 0, s |-> x, a |-> <<>>]

\* ToBoolean(v)
Truthy(v) ==
  CASE v.t = "undefined" -> FALSE
    [] v.t = "null" -> FALSE
    [] v.t = "number" -> v.n # 0
    [] v.t = "string" -> v.s # ""
    [] v.t = "boolean" -> v.n = 1
    [] OTHER -> TRUE

\* v == null (what ?? and ??= test)
Nullish(v) == v.t \in {"undefined", "null"}

\* a || b
OrElse(a, b) == IF Truthy(a) THEN a ELSE b

\* a ?? b
Coalesce(a, b) == IF Nullish(a) THEN b ELSE a

IsString(v) == v.t = "string"

------------------------------------------------------------------------------
VARIABLES
  cfg,         \* what authenticate(passport, name, options, callback) closed over
  strategies,  \* Authenticator._strategies
  bound,       \* action closures last assigned to each strategy instance
  rq,          \* per request: req, res, next, the failure accumulator
  tasks,       \* pending asynchronous work
  live,        \* the requests that are served
  ch,          \* one run of a serializer, deserializer or info-transform chain
  ax           \* the async session manager and the session it works on

vars == <<cfg, strategies, bound, rq, tasks, live, ch, ax>>

------------------------------------------------------------------------------
\* The middleware's configuration (authenticate.ts:138-167).

\* Cast `name` to an array; multi records whether it was one already.
Normalize(name) ==
  IF name.t = "array" THEN [names |-> name.a, multi |-> TRUE]
  ELSE [names |-> <<name>>, multi |-> FALSE]

names == cfg.names
multi == cfg.multi
callback == cfg.callback
options == cfg.options

\* names[i], undefined past the end of the array (i counts from 0 as in attempt)
Layer(i) == IF i >= 0 /\ i < Len(names) THEN names[i + 1] ELSE Undefined

IsStrategy(specifier) == specifier.t = "strategy"

\* this._strategies = {}: a plain object, with its own properties (name to
\* the class of the strategy registered) and its prototype, Object.prototype
\* ("Object") until an assignment to __proto__ makes a strategy of it
Registry(own) == [own |-> own, proto |-> "Object"]

\* the members of Object.prototype other than the accessor __proto__
ObjectMembers ==
  {"constructor", "hasOwnProperty", "isPrototypeOf", "propertyIsEnumerable",
   "toLocaleString", "toString", "valueOf", "__defineGetter__",
   "__defineSetter__", "__lookupGetter__", "__lookupSetter__"}

\* the members a strategy instance of the class holds a truthy value
\* under, itself or through its class
StrategyMembers(class) ==
  {"name", "authenticate"}
    \cup (IF class = "SessionStrategy" THEN {"_key", "_deserializeUser"}
          ELSE {})

\* the names the registry inherits a value under
Inherited ==
  ObjectMembers
    \cup (IF strategies.proto = "Object" THEN {}
          ELSE StrategyMembers(strategies.proto))

\* Strategy.name of the strategies the application constructs
StrategyName(s) ==
  IF s = "SessionStrategy" THEN "session"
  ELSE IF s = "BasicStrategy" THEN "basic" ELSE "local"

\* the value the registry inherits under the name
InheritedValue(name) ==
  IF strategies.proto # "Object" /\ name = "name"
  THEN Str(StrategyName(strategies.proto))
  ELSE IF strategies.proto # "Object" /\ name = "_key" THEN Str("passport")
  ELSE IF name = "constructor" THEN Fn(strategies.proto)
  ELSE Fn(name)

\* Authenticator._strategy(name): this._strategies[name], a property read
\* of the plain object: the strategy registered under the name, else the
\* prototype itself for __proto__, else what the object inherits under the
\* name, else undefined
Strategy_(name) ==
  IF name \in DOMAIN strategies.own THEN StrategyObj(strategies.own[name])
  ELSE IF name = "__proto__"
       THEN IF strategies.proto = "Object" THEN Obj("Object.prototype")
            ELSE StrategyObj(strategies.proto)
  ELSE IF name \in Inherited THEN InheritedValue(name)
  ELSE Undefined

------------------------------------------------------------------------------
\* req, res and next of one request.

NoSession ==
  [present |-> FALSE, id |-> 0, hasKey |-> FALSE, user |-> Undefined,
   messages |-> Undefined, returnTo |-> Undefined]

FreshSession(id) ==
  [present |-> TRUE, id |-> id, hasKey |-> FALSE, user |-> Undefined,
   messages |-> Undefined, returnTo |-> Undefined]

NoHeader == [set |-> FALSE, value |-> Undefined]

\* what the session store holds of the request's session: nothing yet, or
\* the session as it was when req.session.save last succeeded
NoStore == [id |-> 0, user |-> Undefined]
Saved(sess) == [id |-> sess.id, user |-> sess.user]

\* a session operation or a chain answered the request: op with outcome ok
\* and value val
Io(q, op, ok, val) ==
  [q EXCEPT !.io = Append(@, [op |-> op, ok |-> ok, val |-> val])]

\* done(err) of the application that called req.logOut
CallDone(q, err) == [q EXCEPT !.doneCalls = Append(@, err)]

InitRes ==
  [statusCode |-> 200, location |-> NoHeader, contentLength |-> NoHeader,
   wwwAuthenticate |-> NoHeader, ends |-> 0, redirects |-> <<>>]

InitReq(sess) ==
  [started |-> FALSE, failures |-> <<>>, calls |-> [i \in 1..Len(names) |-> 0],
   allFailed |-> 0, res |-> InitRes, nextCalls |-> <<>>, cbCalls |-> <<>>,
   user |-> Undefined, account |-> Undefined, authInfo |-> Undefined,
   session |-> sess, flashCalls |-> <<>>, log |-> <<>>, thrown |-> <<>>,
   stored |-> NoStore, doneCalls |-> <<>>, io |-> <<>>]

\* next(err); next() is next(undefined)
CallNext(q, err) == [q EXCEPT !.nextCalls = Append(@, err)]

\* callback(err, user, info, status)
CallCallback(q, err, user, info, status) ==
  [q EXCEPT !.cbCalls =
     Append(@, [err |-> err, user |-> user, info |-> info, status |-> status])]

\* res.redirect(url), the framework's response helper
ResRedirect(q, url) == [q EXCEPT !.res.redirects = Append(@, url)]

\* an exception leaves the handler that is running
Throw(q, err) == [q EXCEPT !.thrown = Append(@, err)]

RangeError == Obj("RangeError")

\* the status codes http.ServerResponse accepts when it writes the head
ValidStatus(code) == code >= 100 /\ code <= 999

\* the head of the response was written already
HeadersSent(res) == res.ends > 0 \/ res.redirects # <<>>

\* what res.setHeader of http.ServerResponse throws once the head is out
HeadersSentError ==
  Obj("Error:Cannot set headers after they are sent to the client")

\* res.end(body) of http.ServerResponse: the first end writes the head with
\* res.statusCode and throws RangeError 'Invalid status code' when the
\* status is not one, before anything is sent
ResEnd(q) ==
  IF ~HeadersSent(q.res) /\ ~ValidStatus(q.res.statusCode)
  THEN Throw(q, RangeError)
  ELSE [q EXCEPT !.res.ends = @ + 1]

TypeError == Obj("TypeError")

\* SessionManager.setFlash(name, message)
SetFlash(sess, name, message) == sess

\* IncomingMessageExt.flash(type, msg)
Flash(q, type, msg) ==
  [q EXCEPT !.flashCalls = Append(@, <<type, msg>>),
            !.session = SetFlash(@, type, msg)]

\* req.session.messages ??= []; req.session.messages.push(msg)
PushMessage(q, msg) ==
  [q EXCEPT !.session.messages =
     Arr(Append(IF Nullish(@) THEN <<>> ELSE @.a, msg))]

------------------------------------------------------------------------------
\* allFailed (authenticate.ts:183-258)

NoFailure == [challenge |-> Undefined, status |-> Undefined]

\* failures.map(f => f.challenge), failures.map(f => f.status)
Challenges(fs) == [j \in 1..Len(fs) |-> fs[j].challenge]
\* a status list that repeats the challenges
StatusesAsChallenges(fs) == Challenges(fs)

Statuses(fs) == [j \in 1..Len(fs) |-> fs[j].status]

\* the loop of lines 239-246, rstatus ||= status
RECURSIVE RStatus(_, _)
RStatus(fs, rstatus) ==
  IF fs = <<>> THEN rstatus
  ELSE RStatus(Tail(fs), OrElse(rstatus, Head(fs).status))

\* the loop of lines 239-246, rchallenge.push(challenge) for the strings
RChallenge(fs) == SelectSeq(Challenges(fs), IsString)

\* res.statusCode = rstatus ?? 401
StatusCode(rstatus) == Coalesce(rstatus, Num(401)).n

\* a header test that forgets the status
SetsChallengeHeaderAnyStatus(statusCode, rchallenge) == Len(rchallenge) # 0

\* line 249: whether WWW-Authenticate is set
SetsChallengeHeader(statusCode, rchallenge) ==
  statusCode = 401 /\ Len(rchallenge) # 0

\* new AuthenticationError(message, status), status defaulting to 401
AuthenticationError(status) ==
  [t |-> "object", n |-> IF status.t = "undefined" THEN 401 ELSE status.n,
   s |-> "AuthenticationError", a |-> <<>>]

\* the string, if any, that failureFlash / failureMessage stores
FailureText(option, failure) ==
  IF IsString(option) THEN option ELSE failure.challenge

\* lines 236-257: the response the middleware computes itself
Respond(q) ==
  LET rstatus == RStatus(q.failures, Undefined)
      rchallenge == RChallenge(q.failures)
      code == StatusCode(rstatus)
      q1 == [q EXCEPT !.res.statusCode = code]
      q2 == IF SetsChallengeHeader(code, rchallenge)
            THEN [q1 EXCEPT !.res.wwwAuthenticate =
                              [set |-> TRUE, value |-> Arr(rchallenge)]]
            ELSE q1
  IN IF SetsChallengeHeader(code, rchallenge) /\ HeadersSent(q.res)
     THEN Throw(q1, HeadersSentError)
     ELSE IF Truthy(options.failWithError)
     THEN CallNext(q2, AuthenticationError(rstatus))
     ELSE ResEnd(q2)

\* a failure handling that flashes the most recent failure
FailureEffectsOfLast(q) ==
  LET failure == IF Len(q.failures) > 0 THEN q.failures[Len(q.failures)]
                 ELSE NoFailure
      fmsg == FailureText(options.failureFlash, failure)
      q1 == IF Truthy(options.failureFlash) /\ IsString(fmsg)
            THEN Flash(q, "error", fmsg) ELSE q
      mmsg == FailureText(options.failureMessage, failure)
  IN IF Truthy(options.failureMessage) /\ IsString(mmsg)
     THEN IF q1.session.present
          THEN [q |-> PushMessage(q1, mmsg), threw |-> FALSE]
          ELSE [q |-> Throw(q1, TypeError), threw |-> TRUE]
     ELSE [q |-> q1, threw |-> FALSE]

\* lines 203-229: flash, message and redirect of the first failure
FailureEffects(q) ==
  LET failure == IF Len(q.failures) > 0 THEN q.failures[1] ELSE NoFailure
      fmsg == FailureText(options.failureFlash, failure)
      q1 == IF Truthy(options.failureFlash) /\ IsString(fmsg)
            THEN Flash(q, "error", fmsg) ELSE q
      mmsg == FailureText(options.failureMessage, failure)
  IN IF Truthy(options.failureMessage) /\ IsString(mmsg)
     THEN IF q1.session.present
          THEN [q |-> PushMessage(q1, mmsg), threw |-> FALSE]
          ELSE [q |-> Throw(q1, TypeError), threw |-> TRUE]
     ELSE [q |-> q1, threw |-> FALSE]

\* a failure handling that goes on to respond after it redirected
AllFailedRespondsToo(q0) ==
  LET q == [q0 EXCEPT !.allFailed = @ + 1] IN
  IF callback
  THEN IF ~multi
       THEN IF Len(q.failures) = 0
            THEN Throw(q, TypeError)
            ELSE CallCallback(q, Null, Bool(FALSE),
                              q.failures[1].challenge, q.failures[1].status)
       ELSE CallCallback(q, Null, Bool(FALSE),
                         Arr(Challenges(q.failures)), Arr(Statuses(q.failures)))
  ELSE LET e == FailureEffects(q) IN
       IF e.threw THEN e.q
       ELSE IF Truthy(options.failureRedirect)
            THEN Respond(ResRedirect(e.q, options.failureRedirect))
            ELSE Respond(e.q)

AllFailed(q0) ==
  LET q == [q0 EXCEPT !.allFailed = @ + 1] IN
  IF callback
  THEN IF ~multi
       THEN IF Len(q.failures) = 0
            THEN Throw(q, TypeError)
            ELSE CallCallback(q, Null, Bool(FALSE),
                              q.failures[1].challenge, q.failures[1].status)
       ELSE CallCallback(q, Null, Bool(FALSE),
                         Arr(Challenges(q.failures)), Arr(Statuses(q.failures)))
  ELSE LET e == FailureEffects(q) IN
       IF e.threw THEN e.q
       ELSE IF Truthy(options.failureRedirect)
            THEN ResRedirect(e.q, options.failureRedirect)
            ELSE Respond(e.q)

------------------------------------------------------------------------------
\* Pending work.  kind "strategy": strategy.authenticate(req, options) of
\* names[idx] was called for request req and has signalled n actions so far.
\* The other kinds are callbacks the request waits for; they carry what the
\* callback closed over.

Task(kind, r, i, user, info, cont) ==
  [kind |-> kind, req |-> r, idx |-> i, user |-> user, info |-> info,
   cont |-> cont, n |-> 0]

\* What a handler leaves behind: the request, the work it started and the
\* strategy instances it augmented.
Eff(q) == [q |-> q, spawn |-> {}, aug |-> {}]

------------------------------------------------------------------------------
\* The success path (authenticate.ts:326-398, request.ts:27-53,
\* sessionmanager.ts:41-92)

\* an assignment that always lands in the canonical user slot
SetPropCanonical(q, property, value) == [q EXCEPT !.user = value]

\* req[property] = value
SetProp(q, property, value) ==
  IF property = "user" THEN [q EXCEPT !.user = value]
  ELSE [q EXCEPT !.account = value]

\* a completion that removes the stored returnTo without using it
CompleteIgnoresReturnTo(q) ==
  IF Truthy(options.successReturnToOrRedirect)
  THEN ResRedirect([q EXCEPT !.session.returnTo = Undefined],
                   options.successReturnToOrRedirect)
  ELSE IF Truthy(options.successRedirect)
       THEN ResRedirect(q, options.successRedirect)
       ELSE CallNext(q, Undefined)

\* a completion that leaves the stored returnTo in the session
CompleteKeepsReturnTo(q) ==
  IF Truthy(options.successReturnToOrRedirect)
  THEN IF q.session.present /\ Truthy(q.session.returnTo)
       THEN ResRedirect(q, q.session.returnTo)
       ELSE ResRedirect(q, options.successReturnToOrRedirect)
  ELSE IF Truthy(options.successRedirect)
       THEN ResRedirect(q, options.successRedirect)
       ELSE CallNext(q, Undefined)

\* complete(), lines 371-384
Complete(q) ==
  IF Truthy(options.successReturnToOrRedirect)
  THEN IF q.session.present /\ Truthy(q.session.returnTo)
       THEN ResRedirect([q EXCEPT !.session.returnTo = Undefined],
                        q.session.returnTo)
       ELSE ResRedirect(q, options.successReturnToOrRedirect)
  ELSE IF Truthy(options.successRedirect)
       THEN ResRedirect(q, options.successRedirect)
       ELSE CallNext(q, Undefined)

\* passport.transformAuthInfo(info, req, cb): the chain answers cb later
TransformAuthInfo(r, q, info, cont) ==
  [q |-> q, spawn |-> {Task("transform", r, 0, Undefined, info, cont)},
   aug |-> {}]

\* the callbacks of lines 353-359 and 387-393
Transformed(q, err, tinfo, cont) ==
  IF Truthy(err) THEN CallNext(q, err)
  ELSE LET q1 == [q EXCEPT !.authInfo = tinfo] IN
       IF cont = "assign" THEN CallNext(q1, Undefined) ELSE Complete(q1)

\* a log-in callback that completes whatever the log-in reported
LogInCallbackIgnoresError(r, q, err, info) == Eff(Complete(q))

\* the callback given to req.logIn (lines 366-397) behind the one
\* IncomingMessageExt.logIn gives to the session manager (request.ts:43-49)
LogInCallback(r, q, err, info) ==
  IF Truthy(err)
  THEN Eff(CallNext(SetProp(q, "user", Null), err))
  ELSE IF options.authInfo # Bool(FALSE)
       THEN TransformAuthInfo(r, q, info, "complete")
       ELSE Eff(Complete(q))

\* SessionManager.logIn lines 47-51: the local `options` after the overloads
\* are told apart
LogInOptions(optionsOrCb) ==
  IF optionsOrCb.t = "function" THEN Obj("{}") ELSE Undefined

\* The two ways SessionManager.logIn is called: form "" is
\* logIn(req, user, options, cb) as IncomingMessageExt.logIn calls it, form
\* "direct" is logIn(req, user, cb) called by the application.
OptionsOrCb(form) == IF form = "direct" THEN Fn("cb") ELSE Obj("options")

\* cb?.(err): in form "direct" line 49 has replaced cb by the unset local
\* `options`, so nothing is called
ManagerCb(form, r, q, err, info) ==
  IF form = "direct" THEN Eff(q) ELSE LogInCallback(r, q, err, info)

SessionSupportError == Obj("Login sessions require session support")

\* a log-in that writes the user into the session it finds
LogInWritesFirst(form, r, q, user, info) ==
  [q |-> [q EXCEPT !.session.hasKey = TRUE, !.session.user = user],
   spawn |-> {Task("regenerate", r, 0, user, info, form)}, aug |-> {}]

\* SessionManager.logIn as called by IncomingMessageExt.logIn, up to the
\* call of req.session.regenerate (sessionmanager.ts:41-65)
SessionManagerLogIn(form, r, q, user, info) ==
  IF ~q.session.present
  THEN ManagerCb(form, r, q, SessionSupportError, info)
  ELSE [q |-> q, spawn |-> {Task("regenerate", r, 0, user, info, form)},
        aug |-> {}]

\* the callback of req.session.regenerate (sessionmanager.ts:65-70)
Regenerated(form, r, q, err, user, info) ==
  IF Truthy(err) THEN ManagerCb(form, r, q, err, info)
  ELSE [q |-> [q EXCEPT !.session = FreshSession(q.session.id + 1)],
        spawn |-> {Task("serialize", r, 0, user, info, form)}, aug |-> {}]

\* the callback of this._serializeUser (sessionmanager.ts:70-90); sync says
\* the serializer answered inside the try block of Authenticator.serializeUser
\* (authenticator.ts:345-354), whose catch then calls this callback again
Serialized(form, r, q, lopts, err, obj, sync, info) ==
  IF Truthy(err) THEN ManagerCb(form, r, q, err, info)
  ELSE IF Nullish(lopts)
       THEN IF sync THEN ManagerCb(form, r, q, TypeError, info)
            ELSE Eff(Throw(q, TypeError))
       ELSE [q |-> [q EXCEPT !.session.hasKey = TRUE, !.session.user = obj],
             spawn |-> {Task("save", r, 0, Undefined, info, form)}, aug |-> {}]

\* the callback of req.session.save (sessionmanager.ts:84-89)
SessionSaved(form, r, q, err, info) ==
  IF Truthy(err) THEN ManagerCb(form, r, q, err, info)
  ELSE ManagerCb(form, r, [q EXCEPT !.stored = Saved(q.session)],
                 Undefined, info)

\* IncomingMessageExt.logIn(user, options, done) (request.ts:27-53)
ReqLogIn(r, q, user, info) ==
  LET session == Coalesce(options.session, Bool(TRUE))
      q1 == SetProp(Io(q, "logIn", TRUE, user), "user", user)
  IN IF Truthy(session)
     THEN SessionManagerLogIn("", r, q1, user, info)
     ELSE LogInCallback(r, q1, Undefined, info)

\* the string, if any, that successFlash / successMessage stores
SuccessText(option, info) == IF IsString(option) THEN option ELSE info

\* a success that logs in although the application callback was called
SuccessAlsoLogsIn(r, q, user, info0) ==
  ReqLogIn(r, CallCallback(q, Null, user, info0, Undefined), user, info0)

\* strategy.success (authenticate.ts:326-398)
Success(r, q, user, info0) ==
  IF callback THEN Eff(CallCallback(q, Null, user, info0, Undefined))
  ELSE
    LET info == Coalesce(info0, Str(""))
        fmsg == SuccessText(options.successFlash, info)
        q1 == IF Truthy(options.successFlash) /\ IsString(fmsg)
              THEN Flash(q, "success", fmsg) ELSE q
        mmsg == SuccessText(options.successMessage, info)
        stores == Truthy(options.successMessage) /\ IsString(mmsg)
        q2 == IF stores THEN PushMessage(q1, mmsg) ELSE q1
    IN IF stores /\ ~q1.session.present THEN Eff(Throw(q1, TypeError))
       ELSE IF Truthy(options.assignProperty)
            THEN LET q3 == SetProp(q2, options.assignProperty.s, user) IN
                 IF options.authInfo # Bool(FALSE)
                 THEN TransformAuthInfo(r, q3, info, "assign")
                 ELSE Eff(CallNext(q3, Undefined))
            ELSE ReqLogIn(r, q2, user, info)

------------------------------------------------------------------------------
\* attempt and the other action closures (authenticate.ts:262-309, 410-483)

UnknownStrategyError == Obj("Unknown authentication strategy")

\* attempt(i) for request r
Attempt(r, q, i) ==
  LET layer == Layer(i) IN
  IF ~Truthy(layer) THEN Eff(AllFailed(q))
  ELSE IF ~IsStrategy(layer) /\ ~Truthy(Strategy_(layer.s))
       THEN Eff(CallNext(q, UnknownStrategyError))
       ELSE IF ~IsStrategy(layer) /\ ~IsStrategy(Strategy_(layer.s))
       THEN Eff(Throw(q, TypeError))
       ELSE [q |-> [q EXCEPT !.calls[i + 1] = @ + 1],
             spawn |-> {Task("strategy", r, i, Undefined, Undefined, "")},
             aug |-> IF IsStrategy(layer)
                     THEN {[inst |-> layer.s, req |-> r, idx |-> i]}
                     ELSE {}]

\* lines 414-419: the Failure of fail(challengeOrStatus, status)
MakeFailure(challengeOrStatus, status) ==
  IF challengeOrStatus.t = "number"
  THEN [challenge |-> Undefined, status |-> challengeOrStatus]
  ELSE [challenge |-> challengeOrStatus, status |-> status]

\* a fail that forgets to record its Failure
PushFailureDropped(fs, failure) == fs

\* failures.push(failure)
PushFailure(fs, failure) == Append(fs, failure)

\* a fail that steps over the entry after the next
FailSkipsOne(r, q, i, challengeOrStatus, status) ==
  Attempt(r,
          [q EXCEPT !.failures =
             PushFailure(@, MakeFailure(challengeOrStatus, status))],
          i + 2)

\* strategy.fail as augmented by attempt(i) of request r
Fail(r, q, i, challengeOrStatus, status) ==
  Attempt(r,
          [q EXCEPT !.failures =
             PushFailure(@, MakeFailure(challengeOrStatus, status))],
          i + 1)

\* a redirect that falls through to the failure handling
RedirectFallsThrough(q, url, status) ==
  AllFailed(ResEnd([q EXCEPT !.res.statusCode = OrElse(status, Num(302)).n,
                             !.res.location = [set |-> TRUE, value |-> url]]))

\* strategy.redirect (lines 437-452): the status is assigned, then
\* setHeader throws when the head is out already
Redirect(q, url, status) ==
  LET q1 == [q EXCEPT !.res.statusCode = OrElse(status, Num(302)).n]
  IN IF HeadersSent(q.res) THEN Throw(q1, HeadersSentError)
     ELSE ResEnd([q1 EXCEPT !.res.location = [set |-> TRUE, value |-> url],
                            !.res.contentLength =
                              [set |-> TRUE, value |-> Str("0")]])

\* a pass that is handled as the end of the list
PassAsExhausted(q) == AllFailed(q)

\* strategy.pass (lines 463-465)
Pass(q) == CallNext(q, Undefined)

\* an error that continues the chain without the error
ErrorSwallowed(q, err) == CallNext(q, Undefined)

\* strategy.error (lines 477-483)
Error(q, err) ==
  IF callback THEN CallCallback(q, err, Undefined, Undefined, Undefined)
  ELSE CallNext(q, err)

------------------------------------------------------------------------------
\* What the environment may supply.

\* specifier entries: a registered name, a name nothing is registered under,
\* the empty name, a strategy instance passed directly
Entries == {Str("basic"), Str("ghost"), Str(""), StrategyObj("inst")}

Instances == {"inst"}

RECURSIVE ListsUpTo(_)
ListsUpTo(k) ==
  IF k = 0 THEN {<<>>}
  ELSE LET shorter == ListsUpTo(k - 1) IN
       shorter \cup {Append(l, e) : l \in {x \in shorter : Len(x) = k - 1},
                                    e \in Entries}

\* the `name` argument: one entry, or an array of at most MaxLen entries
Specifiers == Entries \cup {Arr(l) : l \in ListsUpTo(MaxLen)}

Flag == {Undefined, Bool(TRUE)}
Text(literal) == {Undefined, Bool(TRUE), Str(literal)}
Url(u) == {Undefined, Str(u)}

DefaultOptions ==
  [session |-> Undefined, successRedirect |-> Undefined,
   successReturnToOrRedirect |-> Undefined, successFlash |-> Undefined,
   successMessage |-> Undefined, failureRedirect |-> Undefined,
   failureFlash |-> Undefined, failureMessage |-> Undefined,
   assignProperty |-> Undefined, failWithError |-> Undefined,
   authInfo |-> Undefined]

\* options that steer what happens after every strategy failed
FailureOptions ==
  {[DefaultOptions EXCEPT !.failureRedirect = fr, !.failureFlash = ff,
                          !.failureMessage = fm, !.failWithError = fe] :
     fr \in Url("/login"), ff \in Text("Bad login"),
     fm \in Text("Bad login"), fe \in Flag}

\* options that steer what a success stores and where the user is written
SuccessOptions ==
  {[DefaultOptions EXCEPT !.successFlash = sf, !.successMessage = sm,
                          !.assignProperty = ap, !.authInfo = ai] :
     sf \in Text("Welcome"), sm \in Text("Welcome"),
     ap \in Url("account"), ai \in {Undefined, Bool(FALSE)}}

\* options that steer the log-in and the response after a success
LogInOptionSets ==
  {[DefaultOptions EXCEPT !.session = se, !.successRedirect = sr,
                          !.successReturnToOrRedirect = so,
                          !.assignProperty = ap, !.authInfo = ai] :
     se \in {Undefined, Bool(FALSE)}, sr \in Url("/home"),
     so \in Url("/default"), ap \in Url("account"),
     ai \in {Undefined, Bool(FALSE)}}

OptionSets == FailureOptions \cup SuccessOptions \cup LogInOptionSets

\* what a strategy may pass to fail(challengeOrStatus, status)
FailArgs ==
  {<<Undefined, Undefined>>, <<Num(0), Undefined>>, <<Num(403), Undefined>>,
   <<Str("Basic realm=x"), Num(401)>>, <<Str("Bearer"), Num(401)>>,
   <<Str("Bearer"), Undefined>>}

\* what a strategy may pass to success(user, info)
SuccessArgs == {<<Obj("alice"), i>> : i \in {Undefined, Str("Hello"), Obj("info")}}

\* what a strategy may pass to redirect(url, status)
RedirectArgs == {<<Str("/idp"), st>> : st \in {Undefined, Num(301)}}

StrategyError == Obj("StrategyError")

\* the sessions a request may arrive with
Sessions ==
  {NoSession, FreshSession(1),
   [FreshSession(1) EXCEPT !.returnTo = Str("/back")]}

\* no chain is run, the async session manager is not in use
NoChain == [variant |-> "none"]
NoAsync == [op |-> "none"]

------------------------------------------------------------------------------
\* The state after the Authenticator was constructed (authenticator.ts:61-90)
\* and authenticate(passport, name, options, callback) returned the
\* middleware; requests Served are about to arrive.

InitWith(Served, Callbacks, Opts, Sess) ==
  /\ strategies = Registry([nm \in {"session", "basic"} |->
                     IF nm = "session" THEN "SessionStrategy"
                     ELSE "BasicStrategy"])
  /\ \E name \in Specifiers, o \in Opts, cb \in Callbacks :
       cfg = [names |-> Normalize(name).names, multi |-> Normalize(name).multi,
              callback |-> cb, options |-> o]
  /\ bound = [s \in Instances |-> [req |-> 0, idx |-> 0]]
  /\ live = Served
  /\ \E sess \in Sess : rq = [r \in Served |-> InitReq(sess)]
  /\ tasks = EmptyBag
  /\ ch = NoChain
  /\ ax = NoAsync

Init == InitWith({1}, BOOLEAN, OptionSets, Sessions)

\* Longest specifier list of the requests that are followed through a
\* list of strategies.
MaxList == MaxLen + 1

\* one request through a middleware made for an array of up to MaxList
\* entries, with or without an application callback, with the log-in into
\* the session, without it, or with assignProperty
InitLists ==
  /\ strategies = Registry([nm \in {"session", "basic"} |->
                     IF nm = "session" THEN "SessionStrategy"
                     ELSE "BasicStrategy"])
  /\ \E l \in ListsUpTo(MaxList), cb \in BOOLEAN,
        o \in {DefaultOptions,
               [DefaultOptions EXCEPT !.session = Bool(FALSE)],
               [DefaultOptions EXCEPT !.assignProperty = Str("account")]} :
       cfg = [names |-> Normalize(Arr(l)).names,
              multi |-> Normalize(Arr(l)).multi,
              callback |-> cb, options |-> o]
  /\ bound = [s \in Instances |-> [req |-> 0, idx |-> 0]]
  /\ live = {1}
  /\ rq = [r \in {1} |-> InitReq(FreshSession(1))]
  /\ tasks = EmptyBag
  /\ ch = NoChain
  /\ ax = NoAsync

------------------------------------------------------------------------------
\* Actions.

\* the closures a running strategy reaches through `this`: its own when
\* attempt made the object with Object.create (line 284), the ones last
\* assigned to the instance when the instance itself was augmented (line 275)
Closure(t) ==
  IF IsStrategy(Layer(t.idx)) THEN bound[Layer(t.idx).s]
  ELSE [req |-> t.req, idx |-> t.idx]

\* the signals on the request that were not the first of their invocation
Repeated(q) == {j \in 1..Len(q.log) : q.log[j].nth > 1}

\* strategy invocations that may signal, each at most limit actions
Signalling(limit) ==
  {t \in BagToSet(tasks) :
     /\ t.kind = "strategy"
     /\ \/ t.n = 0
        \/ t.n < limit /\ Cardinality(Repeated(rq[Closure(t).req])) < limit - 1}

Waiting(kind) == {t \in BagToSet(tasks) : t.kind = kind}

\* the closure ev of attempt idx of the request was called by invocation t
LogEv(q, ev, idx, t, args) ==
  [q EXCEPT !.log = Append(@, [ev |-> ev, idx |-> idx, byReq |-> t.req,
                               byIdx |-> t.idx, nth |-> t.n + 1,
                               args |-> args])]

\* task t ran its callback on request tr with effect eff
Finish(t, limit, tr, eff) ==
  /\ rq' = [rq EXCEPT ![tr] = eff.q]
  /\ tasks' = ((tasks (-) SetToBag({t}))
               (+) SetToBag(IF t.kind = "strategy" /\ t.n + 1 < limit
                            THEN {[t EXCEPT !.n = @ + 1]} ELSE {}))
              (+) SetToBag(eff.spawn)
  /\ bound' = [s \in Instances |->
                 IF \E a \in eff.aug : a.inst = s
                 THEN LET a == CHOOSE a \in eff.aug : a.inst = s
                      IN [req |-> a.req, idx |-> a.idx]
                 ELSE bound[s]]
  /\ UNCHANGED <<cfg, strategies, live, ch, ax>>

\* the middleware is called with (req, res, next): lines 169-181, 311
Request(r) ==
  /\ ~rq[r].started
  /\ LET eff == Attempt(r, [rq[r] EXCEPT !.started = TRUE], 0) IN
     /\ rq' = [rq EXCEPT ![r] = eff.q]
     /\ tasks' = tasks (+) SetToBag(eff.spawn)
     /\ bound' = [s \in Instances |->
                    IF \E a \in eff.aug : a.inst = s
                    THEN [req |-> r, idx |-> 0] ELSE bound[s]]
  /\ UNCHANGED <<cfg, strategies, live, ch, ax>>

\* the strategy calls this.success(user, info)
StrategySuccess(t, limit) ==
  \E args \in SuccessArgs :
    LET c == Closure(t)
        q == LogEv(rq[c.req], "success", c.idx, t, args)
    IN Finish(t, limit, c.req, Success(c.req, q, args[1], args[2]))

\* the strategy calls this.fail(challengeOrStatus, status)
StrategyFail(t, limit) ==
  \E args \in FailArgs :
    LET c == Closure(t)
        q == LogEv(rq[c.req], "fail", c.idx, t, args)
    IN Finish(t, limit, c.req, Fail(c.req, q, c.idx, args[1], args[2]))

\* the strategy calls this.redirect(url, status)
StrategyRedirect(t, limit) ==
  \E args \in RedirectArgs :
    LET c == Closure(t)
        q == LogEv(rq[c.req], "redirect", c.idx, t, args)
    IN Finish(t, limit, c.req, Eff(Redirect(q, args[1], args[2])))

\* the strategy calls this.pass()
StrategyPass(t, limit) ==
  LET c == Closure(t)
      q == LogEv(rq[c.req], "pass", c.idx, t, <<>>)
  IN Finish(t, limit, c.req, Eff(Pass(q)))

\* the strategy calls this.error(err)
StrategyErrors(t, limit) ==
  LET c == Closure(t)
      q == LogEv(rq[c.req], "error", c.idx, t, <<StrategyError>>)
  IN Finish(t, limit, c.req, Eff(Error(q, StrategyError)))

\* req.session.regenerate answers
RegenerateDone(t) ==
  \E err \in {Undefined, Obj("RegenerateError")} :
    Finish(t, 1, t.req,
           Regenerated(t.cont, t.req,
                       Io(rq[t.req], "regenerate", ~Truthy(err), err),
                       err, t.user, t.info))

\* the serializer chain answers the session manager; req.logIn passed its
\* options object where SessionManager.logIn tells the overloads apart
SerializeDone(t) ==
  \E o \in {[err |-> Obj("SerializeError"), obj |-> Undefined, sync |-> TRUE],
            [err |-> Undefined, obj |-> Str("alice-id"), sync |-> TRUE],
            [err |-> Undefined, obj |-> Str("alice-id"), sync |-> FALSE]} :
    Finish(t, 1, t.req,
           Serialized(t.cont, t.req,
                      Io(rq[t.req], "serialize", ~Truthy(o.err), o.obj),
                      LogInOptions(OptionsOrCb(t.cont)),
                      o.err, o.obj, o.sync, t.info))

\* the info-transform chain answers
TransformDone(t) ==
  \E o \in {[err |-> Obj("TransformError"), tinfo |-> Undefined],
            [err |-> Null, tinfo |-> t.info],
            [err |-> Null, tinfo |-> Obj("tinfo")]} :
    Finish(t, 1, t.req,
           Eff(Transformed(Io(rq[t.req], "transform", ~Truthy(o.err), o.err),
                           o.err, o.tinfo, t.cont)))

NextFor(limit) ==
  \/ \E r \in live : Request(r)
  \/ \E t \in Signalling(limit) : StrategySuccess(t, limit)
  \/ \E t \in Signalling(limit) : StrategyFail(t, limit)
  \/ \E t \in Signalling(limit) : StrategyRedirect(t, limit)
  \/ \E t \in Signalling(limit) : StrategyPass(t, limit)
  \/ \E t \in Signalling(limit) : StrategyErrors(t, limit)
  \/ \E t \in Waiting("regenerate") : RegenerateDone(t)
  \/ \E t \in Waiting("serialize") : SerializeDone(t)
  \/ \E t \in Waiting("transform") : TransformDone(t)

\* one request; every strategy invocation signals one action
Next == NextFor(1)

Spec == Init /\ [][Next]_vars

SpecLists == InitLists /\ [][Next]_vars

\* every strategy invocation may signal again after its first action
NextRepeat == NextFor(MaxSignals)

InitRepeat ==
  InitWith({1}, BOOLEAN,
           {DefaultOptions, [DefaultOptions EXCEPT !.session = Bool(FALSE)]},
           {FreshSession(1)})

SpecRepeat == InitRepeat /\ [][NextRepeat]_vars

\* several requests are in flight through the same middleware
InitConcurrent ==
  InitWith(1..MaxRequests, {FALSE},
           {DefaultOptions, [DefaultOptions EXCEPT !.session = Bool(FALSE)]},
           {FreshSession(1)})

SpecConcurrent == InitConcurrent /\ [][Next]_vars

------------------------------------------------------------------------------
\* The chains of the Authenticator run against a value: serializeUser,
\* deserializeUser and transformAuthInfo (authenticator.ts:305-529 for the
\* callback variant, 695-874 for the async variant).

\* Longest chain that is explored.
MaxHandlers == 3

Kinds == {"serialize", "deserialize", "transform"}

PassSentinel == Str("pass")
HandlerError == Obj("HandlerError")

\* the value the chain is run against: a user, a serialized user, an info
ChainInputs == {Obj("input"), Str("")}

\* What a handler hands over.  Callback variant: the arguments (err, val) of
\* one call of its callback.  Async variant: its promise resolved with val
\* (err undefined) or rejected with err.
Answer(err, val) == [err |-> err, val |-> val]

CallbackAnswers ==
  {Answer(PassSentinel, Undefined), Answer(Null, Undefined),
   Answer(Null, Num(0)), Answer(Null, Bool(FALSE)), Answer(Null, Null),
   Answer(Null, Obj("value")), Answer(HandlerError, Undefined),
   Answer(PassSentinel, Obj("value"))}

AsyncAnswers ==
  {Answer(Undefined, v) :
     v \in {Undefined, Num(0), Bool(FALSE), Null, Obj("value")}}
    \cup {Answer(e, Undefined) : e \in {PassSentinel, HandlerError}}

\* A handler: the answers it gives, in order, whether it throws when it
\* is invoked, and how many of its answers it gives inside its body, before
\* it throws (the others it gives later).  A synchronous info transformer
\* (arity 1) that returns t is the handler that answers (null, t) once.
Handler(calls, throws) == [calls |-> calls, throws |-> throws, sync |-> 0]

\* a handler that gives its answers and then throws
AnswersThenThrows(calls) ==
  [calls |-> calls, throws |-> TRUE, sync |-> Len(calls)]

\* handlers that produce one outcome: one answer, or an exception
OnceHandlers(variant) ==
  IF variant = "callback"
  THEN {Handler(<<a>>, FALSE) : a \in CallbackAnswers}
         \cup {Handler(<<>>, TRUE)}
  ELSE {Handler(<<a>>, FALSE) : a \in AsyncAnswers}

\* what the handler signatures admit besides: a callback that is never
\* called, called twice, or called by a handler that also throws; a
\* promise that never settles
AnyHandlers(variant) ==
  IF variant = "callback"
  THEN OnceHandlers(variant)
         \cup {Handler(<<>>, FALSE)}
         \cup {Handler(<<a, a>>, FALSE) : a \in CallbackAnswers}
         \cup {Handler(<<a>>, TRUE) : a \in CallbackAnswers}
         \cup {AnswersThenThrows(<<a>>) : a \in CallbackAnswers}
  ELSE OnceHandlers(variant) \cup {Handler(<<>>, FALSE)}

StacksUpTo(handlers, k) == UNION {[1..n -> handlers] : n \in 0..k}

\* a chain about to be run
NewChain(variant, kind, stack, input) ==
  [variant |-> variant, kind |-> kind, stack |-> stack, input |-> input,
   started |-> FALSE, invoked |-> <<>>, made |-> <<>>, done |-> <<>>]

\* done(err, val); resolve(val) is done(undefined, val), reject(err) is
\* done(err, undefined)
ChainDone(c, err, val) == [c EXCEPT !.done = Append(@, Answer(err, val))]

\* an error check that takes the sentinel for an error
PassKept(err) == err

\* if ('pass' === err) err = undefined
SkipToUndefined(err) == IF err = PassSentinel THEN Undefined ELSE err

\* a result test that knows truthy values only
ObtainedTruthy(kind, obj) == Truthy(obj)

\* an object was obtained: obj || obj === 0 for serializers, the value
\* itself for the other chains
Obtained(kind, obj) ==
  Truthy(obj) \/ (kind = "serialize" /\ obj = Num(0))

ExhaustedError(kind) ==
  IF kind = "serialize" THEN Obj("Failed to serialize user into session")
  ELSE Obj("Failed to deserialize user out of session")

\* an end of the list that is an error for every chain
ExhaustedAlwaysFails(c) ==
  ChainDone(c, ExhaustedError(c.kind), Undefined)

\* an end of the list that hands back the input for every chain
ExhaustedReturnsInput(c) ==
  ChainDone(c, IF c.variant = "callback" THEN Null ELSE Undefined, c.input)

\* !layer: the list is exhausted
Exhausted(c) ==
  IF c.kind = "transform"
  THEN ChainDone(c, IF c.variant = "callback" THEN Null ELSE Undefined, c.input)
  ELSE ChainDone(c, ExhaustedError(c.kind), Undefined)

RECURSIVE ChainPass(_, _, _, _)

\* the arguments of pass(i + 1, ...) for the answer of a handler: those of
\* the callback call, or those the then-callbacks build from the promise
PassArgs(c, a) ==
  IF c.variant = "callback" THEN <<a.err, a.val>>
  ELSE IF a.err = Undefined
       THEN <<IF c.kind = "serialize" THEN Undefined ELSE Null, a.val>>
       ELSE <<a.err, Undefined>>

\* invocations that have an answer left to give
Answering(c) ==
  {k \in 1..Len(c.invoked) :
     c.made[k] < Len(c.stack[c.invoked[k].pos + 1].calls)}

\* invocation k gives its next answer: serialized / deserialized /
\* transformed, or the then-callbacks, call pass(i + 1, err, obj)
Advance(c, k) ==
  LET i == c.invoked[k].pos
      a == c.stack[i + 1].calls[c.made[k] + 1]
      args == PassArgs(c, a)
  IN ChainPass([c EXCEPT !.made[k] = @ + 1], i + 1, args[1], args[2])

\* the n answers invocation k gives inside the handler's body
RECURSIVE SyncCalls(_, _, _)
SyncCalls(c, k, n) ==
  IF n = 0 THEN c ELSE SyncCalls(Advance(c, k), k, n - 1)

\* stack[i] is called with the chain's input; the callback variant catches
\* what the call throws and reports it, after the answers the handler gave
\* before it threw
Invoke(c, i) ==
  LET h == c.stack[i + 1]
      c1 == [c EXCEPT !.invoked = Append(@, [pos |-> i, input |-> c.input]),
                      !.made = Append(@, 0)]
      c2 == SyncCalls(c1, Len(c1.invoked), h.sync)
  IN IF h.throws THEN ChainDone(c2, HandlerError, Undefined) ELSE c2

\* a chain that goes on after a result and reports the last one
ChainPassGoesOn(c, i, err0, obj) ==
  LET err == SkipToUndefined(err0)
  IN IF Truthy(err) THEN ChainDone(c, err, Undefined)
     ELSE IF i >= Len(c.stack)
          THEN IF Obtained(c.kind, obj) THEN ChainDone(c, Undefined, obj)
               ELSE Exhausted(c)
          ELSE Invoke(c, i)

\* pass(i, err, obj)
ChainPass(c, i, err0, obj) ==
  LET err == SkipToUndefined(err0)
      removed == c.kind = "deserialize" /\ obj \in {Null, Bool(FALSE)}
  IN IF c.variant = "callback"
     THEN IF Truthy(err) \/ Obtained(c.kind, obj) THEN ChainDone(c, err, obj)
          ELSE IF removed THEN ChainDone(c, Null, Bool(FALSE))
          ELSE IF i >= Len(c.stack) THEN Exhausted(c)
          ELSE Invoke(c, i)
     ELSE IF Truthy(err) THEN ChainDone(c, err, Undefined)
          ELSE IF Obtained(c.kind, obj) THEN ChainDone(c, Undefined, obj)
          ELSE IF removed THEN ChainDone(c, Undefined, Bool(FALSE))
          ELSE IF i >= Len(c.stack) THEN Exhausted(c)
          ELSE Invoke(c, i)

\* the chain is run against its input: pass(0)
ChainRun ==
  /\ ch.variant # "none" /\ ~ch.started
  /\ ch' = ChainPass([ch EXCEPT !.started = TRUE], 0, Undefined, Undefined)
  /\ UNCHANGED <<cfg, strategies, bound, rq, tasks, live, ax>>

\* a handler of the callback variant calls its callback
HandlerCalls ==
  /\ ch.variant = "callback"
  /\ \E k \in Answering(ch) : ch' = Advance(ch, k)
  /\ UNCHANGED <<cfg, strategies, bound, rq, tasks, live, ax>>

\* the promise of a handler of the async variant settles
HandlerSettles ==
  /\ ch.variant = "async"
  /\ \E k \in Answering(ch) : ch' = Advance(ch, k)
  /\ UNCHANGED <<cfg, strategies, bound, rq, tasks, live, ax>>

\* the run of the chain is over: it was started and no handler has an
\* answer left to give
Finished(c) == c.variant # "none" /\ c.started /\ Answering(c) = {}

\* the application registers a handler with serializeUser(fn),
\* deserializeUser(fn) or transformAuthInfo(fn) before the run is over:
\* the run reads the array the handler is pushed onto; chains of up to
\* limit handlers are explored
Register(handler, limit) ==
  /\ ch.variant # "none" /\ ~Finished(ch)
  /\ Len(ch.stack) < limit
  /\ ch' = [ch EXCEPT !.stack = Append(@, handler)]
  /\ UNCHANGED <<cfg, strategies, bound, rq, tasks, live, ax>>

NextChain ==
  \/ ChainRun
  \/ HandlerCalls
  \/ HandlerSettles
  \/ \E h \in OnceHandlers(ch.variant) : Register(h, MaxHandlers)

NextChainAny ==
  \/ ChainRun
  \/ HandlerCalls
  \/ HandlerSettles
  \/ \E h \in AnyHandlers(ch.variant) : Register(h, MaxHandlers - 1)

\* no request is served
NoRequests ==
  /\ strategies = Registry([nm \in {"session"} |-> "SessionStrategy"])
  /\ cfg = [names |-> <<>>, multi |-> TRUE, callback |-> FALSE,
            options |-> DefaultOptions]
  /\ bound = [s \in Instances |-> [req |-> 0, idx |-> 0]]
  /\ live = {}
  /\ rq = <<>>
  /\ tasks = EmptyBag

\* every handler produces one outcome
InitChain ==
  /\ NoRequests
  /\ ax = NoAsync
  /\ \E variant \in {"callback", "async"}, kind \in Kinds,
        input \in ChainInputs :
       \E stack \in StacksUpTo(OnceHandlers(variant), MaxHandlers) :
         ch = NewChain(variant, kind, stack, input)

SpecChain == InitChain /\ [][NextChain]_vars

\* handlers do whatever their signature admits
InitChainAny ==
  /\ NoRequests
  /\ ax = NoAsync
  /\ \E variant \in {"callback", "async"}, kind \in Kinds,
        input \in ChainInputs :
       \E stack \in StacksUpTo(AnyHandlers(variant), MaxHandlers - 1) :
         ch = NewChain(variant, kind, stack, input)

SpecChainAny == InitChainAny /\ [][NextChainAny]_vars

------------------------------------------------------------------------------
\* Log-in and log-out as the application calls them: the callback variant
\* on a request (request.ts:58-85, sessionmanager.ts:34-134) and the async
\* session manager (unnamed/part_001).

\* SessionManager.logOut up to the call of req.session.save
\* (sessionmanager.ts:94-117)
SessionManagerLogOut(r, q) ==
  IF ~q.session.present THEN Eff(CallDone(q, SessionSupportError))
  ELSE [q |-> [q EXCEPT !.session.user = Undefined],
        spawn |-> {Task("logout-save", r, 0, Undefined, Undefined, "")},
        aug |-> {}]

\* a log-out that leaves the user on the request
ReqLogOutKeepsUser(r, q) ==
  SessionManagerLogOut(r, Io(q, "logOut", TRUE, Num(q.session.id)))

\* IncomingMessageExt.logOut(options, done) (request.ts:58-77)
ReqLogOut(r, q) ==
  SessionManagerLogOut(
    r, SetProp(Io(q, "logOut", TRUE, Num(q.session.id)), "user", Null))

\* a log-out that regenerates whether or not the save succeeded
LogOutSavedAnyway(r, q, err) ==
  [q |-> q,
   spawn |-> {Task("logout-regenerate", r, 0, Undefined, Undefined, "")},
   aug |-> {}]

\* the callback of req.session.save in logOut (sessionmanager.ts:117-124)
LogOutSaved(r, q, err) ==
  IF Truthy(err) THEN Eff(CallDone(q, err))
  ELSE [q |-> [q EXCEPT !.stored = Saved(q.session)],
        spawn |-> {Task("logout-regenerate", r, 0, Undefined, Undefined, "")},
        aug |-> {}]

\* the callback of req.session.regenerate in logOut
\* (sessionmanager.ts:124-132), options.keepSessionInfo not set
LogOutRegenerated(q, err) ==
  IF Truthy(err) THEN CallDone(q, err)
  ELSE CallDone([q EXCEPT !.session = FreshSession(q.session.id + 1)],
                Undefined)

\* IncomingMessageExt.isAuthenticated (request.ts:82-85)
IsAuthenticated(q) == Truthy(q.user)

\* the application calls req._sessionManager.logIn(req, user, cb)
AppLogIn(r) ==
  /\ ~rq[r].started
  /\ LET q == Io([rq[r] EXCEPT !.started = TRUE], "logIn", TRUE, Obj("alice"))
         eff == SessionManagerLogIn("direct", r, q, Obj("alice"), Undefined)
     IN /\ rq' = [rq EXCEPT ![r] = eff.q]
        /\ tasks' = tasks (+) SetToBag(eff.spawn)
  /\ UNCHANGED <<cfg, strategies, bound, live, ch, ax>>

\* req.session.save of the log-in answers
SaveDone(t) ==
  \E err \in {Undefined, Obj("SaveError")} :
    Finish(t, 1, t.req,
           SessionSaved(t.cont, t.req,
                        Io(rq[t.req], "save", ~Truthy(err), err),
                        err, t.info))

\* the application calls req.logOut(done) once the log-in is over
AppLogOut(r) ==
  /\ rq[r].started
  /\ \A t \in BagToSet(tasks) : t.req # r
  /\ \A j \in 1..Len(rq[r].io) : rq[r].io[j].op # "logOut"
  /\ LET eff == ReqLogOut(r, rq[r])
     IN /\ rq' = [rq EXCEPT ![r] = eff.q]
        /\ tasks' = tasks (+) SetToBag(eff.spawn)
  /\ UNCHANGED <<cfg, strategies, bound, live, ch, ax>>

\* req.session.save of the log-out answers
LogOutSaveDone(t) ==
  \E err \in {Undefined, Obj("SaveError")} :
    Finish(t, 1, t.req,
           LogOutSaved(t.req, Io(rq[t.req], "logout-save", ~Truthy(err), err),
                       err))

\* req.session.regenerate of the log-out answers
LogOutRegenerateDone(t) ==
  \E err \in {Undefined, Obj("RegenerateError")} :
    Finish(t, 1, t.req,
           Eff(LogOutRegenerated(
                 Io(rq[t.req], "logout-regenerate", ~Truthy(err), err), err)))

\* The async session manager.  iron-session keeps the session in a sealed
\* cookie: getSession reads it into an object, save seals the object into
\* the cookie, destroy empties the object and discards the cookie, so that
\* the next session is a new one.  id tells the sessions apart.
\* flash holds one message per kind of FlashType (interfaces/session.ts:6-18)
FlashKinds == {"error", "success", "info"}
NoFlash == [set |-> FALSE, at |-> [k \in FlashKinds |-> Undefined]]

NoData ==
  [id |-> 0, user |-> Undefined, returnTo |-> Undefined, flash |-> NoFlash]

\* arg holds the arguments and locals of the running operation, ret what
\* the operations returned, signals the actions the session strategy
\* signalled
NewAsync ==
  [op |-> "idle", pc |-> "", arg |-> <<>>, cookie |-> [NoData EXCEPT !.id = 1],
   session |-> NoData, results |-> <<>>, io |-> <<>>, ret |-> <<>>,
   signals |-> <<>>]

\* the promise of the running operation settles
AsyncSettle(a, err) ==
  [a EXCEPT !.op = "idle", !.pc = "",
            !.results = Append(@, [op |-> a.op, err |-> err])]

AsyncIo(a, op, ok, val) ==
  [a EXCEPT !.io = Append(@, [op |-> op, ok |-> ok, val |-> val])]

\* after `await this.getSession()`: logIn goes on to serialize (line 17),
\* logOut deletes the user and saves (lines 28-29)
AsyncGot(a) ==
  IF a.op = "logIn" THEN [a EXCEPT !.session = a.cookie, !.pc = "serialize"]
  ELSE [a EXCEPT !.session = [a.cookie EXCEPT !.user = Undefined],
                 !.pc = "save"]

\* after `await this._serializeUser?.(user)` (part_001:17-19)
AsyncSerializedTo(a, err, dto) ==
  IF Truthy(err) THEN AsyncSettle(a, err)
  ELSE [a EXCEPT !.session.user = dto, !.pc = "save"]

\* after `await session.save()`: logIn is over (part_001:19-20), logOut
\* destroys the session (part_001:29-33)
AsyncSavedTo(a, err) ==
  IF Truthy(err) THEN AsyncSettle(a, err)
  ELSE IF a.op = "logIn"
       THEN AsyncSettle([a EXCEPT !.cookie = a.session], Undefined)
       ELSE AsyncSettle([a EXCEPT !.session = NoData,
                                  !.cookie = [NoData EXCEPT
                                                !.id = a.session.id + 1]],
                        Undefined)

\* SessionManager.isAuthenticated (part_001:59-66) on the session read
\* from the cookie
AsyncIsAuthenticated(a) == a.cookie.user # Undefined

\* the application calls logIn(user)
AsyncLogIn ==
  /\ ax.op = "idle" /\ ax.results = <<>>
  /\ ax' = [ax EXCEPT !.op = "logIn", !.pc = "getSession"]
  /\ UNCHANGED <<cfg, strategies, bound, rq, tasks, live, ch>>

\* the application calls logOut() once logIn is over
AsyncLogOut ==
  /\ ax.op = "idle" /\ Len(ax.results) = 1
  /\ ax' = AsyncIo([ax EXCEPT !.op = "logOut", !.pc = "getSession"],
                   "logOut", TRUE, Num(ax.cookie.id))
  /\ UNCHANGED <<cfg, strategies, bound, rq, tasks, live, ch>>

\* getSession() settles: the cookie was unsealed, or it could not be
AsyncGotSession ==
  /\ ax.op \in {"logIn", "logOut"} /\ ax.pc = "getSession"
  /\ \E err \in {Undefined, Obj("SessionError")} :
       ax' = IF Truthy(err)
             THEN AsyncSettle(AsyncIo(ax, "getSession", FALSE, err), err)
             ELSE AsyncGot(AsyncIo(ax, "getSession", TRUE, err))
  /\ UNCHANGED <<cfg, strategies, bound, rq, tasks, live, ch>>

\* the serializer chain settles
AsyncSerialized ==
  /\ ax.op = "logIn" /\ ax.pc = "serialize"
  /\ \E o \in {Answer(Undefined, Str("alice-id")), Answer(Undefined, Num(0)),
               Answer(Obj("SerializeError"), Undefined)} :
       ax' = AsyncSerializedTo(AsyncIo(ax, "serialize", ~Truthy(o.err), o.val),
                               o.err, o.val)
  /\ UNCHANGED <<cfg, strategies, bound, rq, tasks, live, ch>>

\* session.save() settles
AsyncSaved ==
  /\ ax.op \in {"logIn", "logOut"} /\ ax.pc = "save"
  /\ \E err \in {Undefined, Obj("SaveError")} :
       ax' = AsyncSavedTo(AsyncIo(ax, "save", ~Truthy(err), err), err)
  /\ UNCHANGED <<cfg, strategies, bound, rq, tasks, live, ch>>

NextSession ==
  \/ NextFor(1)
  \/ \E r \in live : AppLogIn(r)
  \/ \E t \in Waiting("save") : SaveDone(t)
  \/ \E r \in live : AppLogOut(r)
  \/ \E t \in Waiting("logout-save") : LogOutSaveDone(t)
  \/ \E t \in Waiting("logout-regenerate") : LogOutRegenerateDone(t)
  \/ AsyncLogIn
  \/ AsyncLogOut
  \/ AsyncGotSession
  \/ AsyncSerialized
  \/ AsyncSaved

\* one request of the callback variant, or the async session manager
InitSession ==
  \/ InitWith({1}, {FALSE},
              {DefaultOptions, [DefaultOptions EXCEPT !.session = Bool(FALSE)]},
              {NoSession, FreshSession(1)})
  \/ /\ NoRequests
     /\ ch = NoChain
     /\ ax = NewAsync

SpecSession == InitSession /\ [][NextSession]_vars

------------------------------------------------------------------------------
\* Properties.

Last(seq) == seq[Len(seq)]

\* the Failure that fail(args) stands for
ExpectedFailure(args) ==
  IF args[1].t = "number"
  THEN [challenge |-> Undefined, status |-> args[1]]
  ELSE [challenge |-> args[1], status |-> args[2]]

\* the request has nothing pending
Settled(r) == rq[r].started /\ \A t \in BagToSet(tasks) : t.req # r

\* positions 1..n-1 of the log are the fails of entries 0..n-2, in order
FailedUpTo(q, n) ==
  /\ Len(q.log) >= n - 1
  /\ \A j \in 1..(n - 1) : q.log[j].ev = "fail" /\ q.log[j].idx = j - 1

\* entry k (from 0) signalled ev after all entries before it failed
SignalledAfterFails(q, k, ev) ==
  /\ Len(q.log) = k + 1
  /\ FailedUpTo(q, k + 1)
  /\ q.log[k + 1].ev = ev /\ q.log[k + 1].idx = k

\* nothing of the aggregate-failure handling shows on the request
FailureTexts == {Str("Bad login"), Str("Basic realm=x"), Str("Bearer")}

NoFailureOutcome(q) ==
  /\ q.allFailed = 0
  /\ ~q.res.wwwAuthenticate.set
  /\ q.res.statusCode \notin {0, 401, 403}
  /\ \A j \in 1..Len(q.flashCalls) : q.flashCalls[j][1] # "error"
  /\ \A j \in 1..Len(q.res.redirects) : q.res.redirects[j] # Str("/login")
  /\ q.session.messages.t = "array" =>
       \A j \in 1..Len(q.session.messages.a) :
          q.session.messages.a[j] \notin FailureTexts

\* the calls of req.logIn the request has seen
LogInCalls(q) == SelectSeq(q.io, LAMBDA e : e.op = "logIn")

\* the request took the success outcome for the user: the application
\* callback got (null, user, info) and nothing else happened; or the user
\* was assigned to the alternate property; or req.logIn was called, once,
\* with the user, who is the current user when the session is not used
SuccessOutcome(q, user, info) ==
  IF callback
  THEN /\ q.cbCalls = <<[err |-> Null, user |-> user, info |-> info,
                         status |-> Undefined]>>
       /\ q.nextCalls = <<>> /\ q.thrown = <<>> /\ q.io = <<>>
  ELSE /\ q.cbCalls = <<>>
       /\ IF Truthy(options.assignProperty)
          THEN q.account = user /\ LogInCalls(q) = <<>> /\ q.thrown = <<>>
          ELSE /\ Len(LogInCalls(q)) = 1
               /\ LogInCalls(q)[1].val = user
               /\ ~Truthy(Coalesce(options.session, Bool(TRUE))) =>
                    q.user = user /\ q.thrown = <<>>

C2_FirstWins ==
  \A r \in live : \A k \in 0..(Len(names) - 1) :
    LET q == rq[r] IN
    (Len(q.log) > k /\ FailedUpTo(q, k + 1)
       /\ q.log[k + 1].ev \in {"success", "redirect"} /\ q.log[k + 1].idx = k) =>
      /\ \A j \in (k + 2)..Len(names) : q.calls[j] = 0
      /\ Len(q.failures) = k
      /\ NoFailureOutcome(q)

C2_Witness ==
  /\ Len(names) = 2 /\ names[2] = Str("basic")
  /\ SignalledAfterFails(rq[1], 0, "redirect")
  /\ rq[1].calls = <<1, 0>>
  /\ rq[1].res.location.value = Str("/idp")
  /\ Settled(1)

\* every strategy failed and the middleware computes the response itself
AnsweredDirectly(q) ==
  /\ q.allFailed = 1
  /\ \A j \in 1..Len(q.log) : q.log[j].ev = "fail"
  /\ ~callback
  /\ ~Truthy(options.failureRedirect)
  /\ q.thrown = <<>>

\* the status of the first Failure whose status is neither missing nor 0
RECURSIVE FirstStatus(_)
FirstStatus(fs) ==
  IF fs = <<>> THEN 401
  ELSE IF Head(fs).status.t = "number" /\ Head(fs).status.n # 0
       THEN Head(fs).status.n
       ELSE FirstStatus(Tail(fs))

IsStringChallenge(f) == f.challenge.t = "string"

\* the string challenges of the Failures, in order
StringChallenges(fs) ==
  LET kept == SelectSeq(fs, IsStringChallenge)
  IN [j \in 1..Len(kept) |-> kept[j].challenge]

\* C3: when every strategy fails (no callback, no failureRedirect) the
\* response status is the status of the first Failure that carries a
\* non-empty status, 401 when none does, and the challenges sent are the
\* string challenges of all Failures in strategy order.
C3_AggregateStatus ==
  \A r \in live :
    LET q == rq[r] IN
    AnsweredDirectly(q) =>
      /\ q.res.statusCode = FirstStatus(q.failures)
      /\ q.res.wwwAuthenticate.set =>
           q.res.wwwAuthenticate.value = Arr(StringChallenges(q.failures))

\* C4: when the middleware answers the aggregate failure itself, the
\* WWW-Authenticate header is set exactly when the status is 401 and some
\* Failure carried a string challenge, and then lists all string challenges
\* in strategy order.
C4_ChallengeHeader ==
  \A r \in live :
    LET q == rq[r] IN
    (AnsweredDirectly(q) /\ ~Truthy(options.failWithError)) =>
      /\ q.res.ends = 1
      /\ q.res.wwwAuthenticate.set <=>
           (q.res.statusCode = 401 /\ StringChallenges(q.failures) # <<>>)
      /\ q.res.wwwAuthenticate.set =>
           q.res.wwwAuthenticate.value = Arr(StringChallenges(q.failures))

C4_Witness ==
  /\ AnsweredDirectly(rq[1]) /\ ~Truthy(options.failWithError)
  /\ rq[1].failures = <<[challenge |-> Str("Basic realm=x"), status |-> Num(401)],
                        [challenge |-> Str("Bearer"), status |-> Num(401)]>>
  /\ rq[1].res.statusCode = 401
  /\ rq[1].res.wwwAuthenticate.value = Arr(<<Str("Basic realm=x"), Str("Bearer")>>)
  /\ rq[1].res.ends = 1

\* C5: when a strategy signals error(err) the error goes at once to the
\* application callback if there is one, else to next(err); no Failure is
\* appended, no later strategy is invoked and allFailed is not entered.
C5_ErrorPropagates ==
  \A r \in live : \A k \in 0..(Len(names) - 1) :
    LET q == rq[r] IN
    SignalledAfterFails(q, k, "error") =>
      /\ Len(q.failures) = k
      /\ \A j \in (k + 2)..Len(names) : q.calls[j] = 0
      /\ q.allFailed = 0
      /\ q.res = InitRes
      /\ Settled(r)
      /\ IF callback
         THEN /\ q.cbCalls = <<[err |-> q.log[k + 1].args[1], user |-> Undefined,
                                info |-> Undefined, status |-> Undefined]>>
              /\ q.nextCalls = <<>>
         ELSE /\ q.nextCalls = <<q.log[k + 1].args[1]>>
              /\ q.cbCalls = <<>>

C5_Witness ==
  /\ Len(names) = 2 /\ names[2] = Str("basic") /\ ~callback
  /\ SignalledAfterFails(rq[1], 0, "error")
  /\ rq[1].nextCalls = <<StrategyError>>
  /\ rq[1].calls = <<1, 0>>

\* every field of the request but the record of who signalled what
Observable(q) == [q EXCEPT !.log = <<>>]

\* C6 as claimed: a strategy that signals pass leaves the request where
\* attempt would have left it had the entry not been in the list, that is
\* where the attempt of the entry after it leaves it.
C6_PassAsAbsent ==
  [][\A r \in live :
       (Len(rq'[r].log) = Len(rq[r].log) + 1 /\ Last(rq'[r].log).ev = "pass") =>
         Observable(rq'[r]) =
           Observable(Attempt(r, rq[r], Last(rq'[r].log).idx + 1).q)]_vars

\* C6 amended: when a strategy signals pass, no Failure is recorded and the
\* request goes on to the next middleware at once: next() is called once
\* without an error, no response is written, the callback is not called and
\* no later entry of the list is invoked.
C6_PassContinues ==
  \A r \in live : \A k \in 0..(Len(names) - 1) :
    LET q == rq[r] IN
    SignalledAfterFails(q, k, "pass") =>
      /\ Len(q.failures) = k
      /\ q.nextCalls = <<Undefined>>
      /\ q.cbCalls = <<>>
      /\ \A j \in (k + 2)..Len(names) : q.calls[j] = 0
      /\ q.allFailed = 0
      /\ q.res = InitRes
      /\ Settled(r)

C6_Witness ==
  /\ Len(names) = 2 /\ names[2] = Str("basic")
  /\ SignalledAfterFails(rq[1], 0, "pass")
  /\ rq[1].nextCalls = <<Undefined>>
  /\ rq[1].calls = <<1, 0>>

\* C9: when attempt reaches an entry that is a name nothing is registered
\* under, the request ends with the configuration error given to next: no
\* Failure is appended, no later entry is attempted and the aggregate
\* failure is not produced, whatever Failures were recorded before.
C9_UnknownStrategy ==
  \A r \in live : \A i \in 0..(Len(names) - 1) :
    LET q == rq[r] IN
    (q.started /\ names[i + 1].t = "string"
       /\ names[i + 1].s \notin DOMAIN strategies.own
       /\ Len(q.log) = i /\ FailedUpTo(q, i + 1)) =>
      /\ q.nextCalls = <<UnknownStrategyError>>
      /\ Len(q.failures) = i
      /\ \A j \in (i + 1)..Len(names) : q.calls[j] = 0
      /\ q.allFailed = 0
      /\ q.res = InitRes
      /\ q.cbCalls = <<>>

\* C10: when a strategy signals success(user, info) and an application
\* callback was supplied, the callback is called once with (null, user,
\* info) and nothing else happens: no flash, no message, no user slot
\* written, no log-in, no info transform, no redirect, no next.
C10_CallbackSuccess ==
  \A r \in live : \A k \in 0..(Len(names) - 1) :
    LET q == rq[r] IN
    (callback /\ SignalledAfterFails(q, k, "success")) =>
      /\ q.cbCalls = <<[err |-> Null, user |-> q.log[k + 1].args[1],
                        info |-> q.log[k + 1].args[2], status |-> Undefined]>>
      /\ q.flashCalls = <<>>
      /\ q.session \in Sessions
      /\ q.user = Undefined /\ q.account = Undefined /\ q.authInfo = Undefined
      /\ q.res = InitRes
      /\ q.nextCalls = <<>>
      /\ Settled(r)

C10_Witness ==
  /\ callback
  /\ options.successFlash = Bool(TRUE) /\ options.successMessage = Str("Welcome")
  /\ options.assignProperty = Undefined
  /\ rq[1].session.present
  /\ SignalledAfterFails(rq[1], 0, "success")
  /\ rq[1].log[1].args[2] = Str("Hello")
  /\ Len(rq[1].cbCalls) = 1

\* C7: whatever a strategy signals while it processes a request acts on
\* that request: every closure call recorded on a request was made by a
\* strategy invocation of that same request, in every interleaving.
C7_OwnClosures ==
  \A r \in live : \A j \in 1..Len(rq[r].log) : rq[r].log[j].byReq = r

\* a terminal action was signalled for the request
Concluded(q) ==
  \/ q.allFailed > 0
  \/ \E j \in 1..Len(q.log) : q.log[j].ev \in {"success", "redirect", "error"}

\* what a request shows to its surroundings
Effects(q) == <<q.res, q.nextCalls, q.cbCalls, q.failures, q.calls>>

\* C8: once a terminal action was signalled for a request, a further signal
\* of a strategy invocation that has signalled before changes nothing: no
\* response write, no call of next or of the callback, no Failure, no
\* strategy invoked, no work started.
C8_LateSignalsIgnored ==
  [][\A r \in live :
       (/\ Concluded(rq[r])
        /\ Len(rq'[r].log) = Len(rq[r].log) + 1
        /\ Last(rq'[r].log).nth > 1) =>
         /\ Effects(rq'[r]) = Effects(rq[r])
         /\ \A t \in BagToSet(tasks') : t.req = r => BagIn(t, tasks)]_vars

\* work of the session log-in is pending or was done for the request
LogInWork(r) ==
  \E t \in BagToSet(tasks) :
    t.req = r /\ t.kind \in {"regenerate", "serialize", "save"}

\* C11: on success with assignProperty set and no application callback, the
\* user is written to the alternate slot only: req.user and the session's
\* stored user stay as they were, the session log-in is not started, no
\* redirect is issued whatever successRedirect / successReturnToOrRedirect
\* say, and the request continues with next(), or with next(err) when the
\* info-transform chain fails.
C11_AssignOnly ==
  \A r \in live : \A k \in 0..(Len(names) - 1) :
    LET q == rq[r] IN
    (/\ ~callback /\ Truthy(options.assignProperty)
     /\ SignalledAfterFails(q, k, "success") /\ q.thrown = <<>>) =>
      /\ q.account = q.log[k + 1].args[1]
      /\ q.user = Undefined
      /\ q.session.user = Undefined /\ ~q.session.hasKey
      /\ q.session.id = IF q.session.present THEN 1 ELSE 0
      /\ ~LogInWork(r)
      /\ q.res = InitRes
      /\ q.cbCalls = <<>>
      /\ IF \E t \in BagToSet(tasks) : t.req = r /\ t.kind = "transform"
         THEN q.nextCalls = <<>> /\ options.authInfo # Bool(FALSE)
         ELSE \/ q.nextCalls = <<Undefined>>
              \/ /\ q.nextCalls = <<Obj("TransformError")>>
                 /\ options.authInfo # Bool(FALSE)

C11_Witness ==
  /\ ~callback
  /\ options.assignProperty = Str("account")
  /\ options.successRedirect = Str("/home")
  /\ options.successReturnToOrRedirect = Str("/default")
  /\ SignalledAfterFails(rq[1], 0, "success")
  /\ rq[1].account = Obj("alice")
  /\ rq[1].authInfo = Obj("tinfo")
  /\ rq[1].nextCalls = <<Undefined>>
  /\ Settled(1)

\* C12: when every strategy of the specifier failed and an application
\* callback was supplied, the callback is called exactly once with (null,
\* false, c, s): c and s are the first Failure's challenge and status when
\* the specifier was a single value, the arrays of all challenges and all
\* statuses in strategy order when it was a list; no response is written
\* and next is not called.
C12_CallbackFailure ==
  \A r \in live :
    LET q == rq[r]
        N == Len(names)
        fs == [j \in 1..N |-> ExpectedFailure(q.log[j].args)]
    IN (callback /\ N >= 1 /\ Len(q.log) = N /\ FailedUpTo(q, N + 1)) =>
         /\ q.cbCalls =
              <<[err |-> Null, user |-> Bool(FALSE),
                 info |-> IF multi
                          THEN Arr([j \in 1..N |-> fs[j].challenge])
                          ELSE fs[1].challenge,
                 status |-> IF multi
                            THEN Arr([j \in 1..N |-> fs[j].status])
                            ELSE fs[1].status]>>
         /\ q.res = InitRes
         /\ q.nextCalls = <<>>
         /\ q.thrown = <<>>

C12_Witness ==
  /\ callback /\ multi /\ Len(names) = 2
  /\ Len(rq[1].log) = 2 /\ FailedUpTo(rq[1], 3)
  /\ Len(rq[1].cbCalls) = 1
  /\ rq[1].cbCalls[1].info = Arr(<<Str("Basic realm=x"), Str("Bearer")>>)
  /\ rq[1].cbCalls[1].status = Arr(<<Num(401), Undefined>>)

\* the chain run from its start until no handler has an answer left
RECURSIVE RunOn(_)
RunOn(c) ==
  IF Answering(c) = {} THEN c
  ELSE RunOn(Advance(c, CHOOSE k \in Answering(c) :
                          \A j \in Answering(c) : k <= j))

RunChain(variant, kind, stack, input) ==
  RunOn(ChainPass([NewChain(variant, kind, stack, input)
                     EXCEPT !.started = TRUE], 0, Undefined, Undefined))

\* the handler signals skip: the sentinel, or neither an error nor a value
IsSkip(a) == a.val = Undefined /\ a.err \in {PassSentinel, Null, Undefined}
IsSkipper(h) == ~h.throws /\ Len(h.calls) = 1 /\ IsSkip(h.calls[1])

\* the stack without its handler at position i (from 1)
Without(stack, i) ==
  [j \in 1..(Len(stack) - 1) |-> IF j < i THEN stack[j] ELSE stack[j + 1]]

\* the invocations of the handlers other than the one at position i, as
\* they are numbered in the stack without it
Others(invoked, i) ==
  LET kept == SelectSeq(invoked, LAMBDA e : e.pos # i - 1)
  IN [j \in 1..Len(kept) |->
        [kept[j] EXCEPT !.pos = IF @ > i - 1 THEN @ - 1 ELSE @]]

\* C13: for every chain, a handler that signals skip is as good as absent:
\* the run reports the same outcome (value, error or exhaustion) and calls
\* the other handlers in the same order with the same input as the run of
\* the chain without that handler, at every position.
C13_SkipAsAbsent ==
  Finished(ch) =>
    \A i \in 1..Len(ch.stack) :
      IsSkipper(ch.stack[i]) =>
        LET w == RunChain(ch.variant, ch.kind, Without(ch.stack, i), ch.input)
        IN /\ w.done = ch.done
           /\ w.invoked = Others(ch.invoked, i)

C13_Witness ==
  /\ Finished(ch) /\ ch.variant = "callback" /\ ch.kind = "serialize"
  /\ ch.stack = <<Handler(<<Answer(Null, Undefined)>>, FALSE),
                  Handler(<<Answer(PassSentinel, Undefined)>>, FALSE),
                  Handler(<<Answer(Null, Obj("value"))>>, FALSE)>>
  /\ Len(ch.invoked) = 3
  /\ ch.done = <<Answer(Null, Obj("value"))>>

\* C14: a serializer that yields the literal 0 ends the chain with the
\* result 0: no later serializer is called and the run does not end with
\* 'Failed to serialize user into session'.
C14_ZeroIsAResult ==
  (ch.variant # "none" /\ ch.kind = "serialize") =>
    \A k \in 1..Len(ch.invoked) :
      LET h == ch.stack[ch.invoked[k].pos + 1] IN
      (ch.made[k] = 1 /\ h.calls[1].val = Num(0)
         /\ ~Truthy(SkipToUndefined(h.calls[1].err))) =>
        /\ Len(ch.done) = 1
        /\ ch.done[1].val = Num(0) /\ ~Truthy(ch.done[1].err)
        /\ Len(ch.invoked) = k
        /\ Finished(ch)

C14_Witness ==
  /\ Finished(ch) /\ ch.variant = "async" /\ ch.kind = "serialize"
  /\ Len(ch.stack) = 3
  /\ ch.stack[2] = Handler(<<Answer(Undefined, Num(0))>>, FALSE)
  /\ ch.stack[3] = Handler(<<Answer(Undefined, Obj("value"))>>, FALSE)
  /\ Len(ch.invoked) = 2
  /\ ch.done = <<Answer(Undefined, Num(0))>>

\* C15: the info-transform chain with no handlers, or with handlers that
\* all skip, ends without an error and returns the input unchanged.
C15_TransformDefault ==
  (Finished(ch) /\ ch.kind = "transform"
     /\ \A i \in 1..Len(ch.stack) : IsSkipper(ch.stack[i])) =>
    /\ Len(ch.done) = 1
    /\ ~Truthy(ch.done[1].err)
    /\ ch.done[1].val = ch.input
    /\ Len(ch.invoked) = Len(ch.stack)

C15_Witness ==
  /\ Finished(ch) /\ ch.kind = "transform" /\ ch.variant = "callback"
  /\ ch.stack = <<Handler(<<Answer(PassSentinel, Undefined)>>, FALSE),
                  Handler(<<Answer(Null, Undefined)>>, FALSE)>>
  /\ ch.input = Obj("input")
  /\ ch.done = <<Answer(Null, Obj("input"))>>

\* C16: whatever a handler does within its signature, every handler that
\* was invoked advances the run exactly once: no handler is invoked twice
\* in a run, the run reports at most one outcome, and a run that is over
\* has reported one.
C16_OneAdvance ==
  ch.variant # "none" =>
    /\ \A j, k \in 1..Len(ch.invoked) :
         ch.invoked[j].pos = ch.invoked[k].pos => j = k
    /\ Len(ch.done) <= 1
    /\ Finished(ch) => Len(ch.done) = 1

\* the log of session operations has an entry op with outcome ok
IoHas(io, op, ok) == \E j \in 1..Len(io) : io[j].op = op /\ io[j].ok = ok

\* the value of the first entry op
IoVal(io, op) ==
  io[CHOOSE j \in 1..Len(io) :
       io[j].op = op /\ \A k \in 1..(j - 1) : io[k].op # op].val

\* the entries after the call of logOut
AfterLogOut(io) ==
  LET j == CHOOSE j \in 1..Len(io) : io[j].op = "logOut"
  IN SubSeq(io, j + 1, Len(io))

\* C17: a logIn(user) whose serializer chain yields s and whose session
\* operations succeed ends without an error, with s as the session's user
\* and the session persisted: for req.logIn(user, options, done) of the
\* callback variant and for logIn(user) of the async session manager.
C17_LogInStores ==
  /\ \A r \in live :
       LET q == rq[r] IN
       (/\ Len(q.log) > 0 /\ Settled(r)
        /\ IoHas(q.io, "regenerate", TRUE) /\ IoHas(q.io, "serialize", TRUE)
        /\ ~IoHas(q.io, "save", FALSE) /\ ~IoHas(q.io, "logOut", TRUE)) =>
         /\ q.session.user = IoVal(q.io, "serialize")
         /\ q.stored = Saved(q.session)
         /\ q.thrown = <<>>
         /\ \A j \in 1..Len(q.nextCalls) : ~Truthy(q.nextCalls[j])
  /\ (/\ ax.op = "idle" /\ Len(ax.results) = 1
      /\ IoHas(ax.io, "serialize", TRUE) /\ IoHas(ax.io, "save", TRUE)) =>
       /\ ax.results[1].err = Undefined
       /\ ax.cookie.user = IoVal(ax.io, "serialize")

\* C18: logIn(user) followed by logOut() on the same session leaves
\* isAuthenticated() false and the session with another identifier than it
\* had when logOut was called.
C18_LogInThenLogOut ==
  /\ \A r \in live :
       LET q == rq[r] IN
       (/\ IoHas(q.io, "logIn", TRUE) /\ IoHas(q.io, "logOut", TRUE)
        /\ q.doneCalls = <<Undefined>>) =>
         /\ ~IsAuthenticated(q)
         /\ Num(q.session.id) # IoVal(q.io, "logOut")
  /\ (/\ ax.op = "idle" /\ Len(ax.results) = 2
      /\ ax.results[2].err = Undefined) =>
       /\ ~AsyncIsAuthenticated(ax)
       /\ Num(ax.cookie.id) # IoVal(ax.io, "logOut")

C18_Witness ==
  /\ ax.op = "idle" /\ Len(ax.results) = 2
  /\ ax.results[1].err = Undefined /\ ax.results[2].err = Undefined
  /\ IoVal(ax.io, "serialize") = Str("alice-id")
  /\ ax.cookie = [NoData EXCEPT !.id = 2]

\* C19: logOut removes the user from the session, persists the session and
\* only then changes the identifier: the identifier has changed only if
\* the removal was persisted, and when persisting fails the identifier
\* stays and the error is reported.
C19_LogOutOrder ==
  /\ \A r \in live :
       LET q == rq[r] IN
       IoHas(q.io, "logOut", TRUE) =>
         /\ (\E t \in BagToSet(tasks) : t.req = r /\ t.kind = "logout-save")
              => q.session.user = Undefined
         /\ Num(q.session.id) # IoVal(q.io, "logOut") =>
              /\ IoHas(q.io, "logout-save", TRUE)
              /\ q.stored = [id |-> IoVal(q.io, "logOut").n, user |-> Undefined]
         /\ IoHas(q.io, "logout-save", FALSE) =>
              /\ Num(q.session.id) = IoVal(q.io, "logOut")
              /\ q.doneCalls = <<Obj("SaveError")>>
              /\ Settled(r)
  /\ (ax.op # "none" /\ IoHas(ax.io, "logOut", TRUE)) =>
       /\ ax.pc = "save" => ax.session.user = Undefined
       /\ Num(ax.cookie.id) # IoVal(ax.io, "logOut") =>
            IoHas(AfterLogOut(ax.io), "save", TRUE)
       /\ IoHas(AfterLogOut(ax.io), "save", FALSE) =>
            /\ Num(ax.cookie.id) = IoVal(ax.io, "logOut")
            /\ ax.results[2] = [op |-> "logOut", err |-> Obj("SaveError")]

C19_Witness ==
  /\ 1 \in live
  /\ IoHas(rq[1].io, "save", TRUE)
  /\ IoHas(rq[1].io, "logout-save", TRUE)
  /\ IoHas(rq[1].io, "logout-regenerate", TRUE)
  /\ rq[1].stored = [id |-> 2, user |-> Undefined]
  /\ rq[1].session.id = 3
  /\ rq[1].doneCalls = <<Undefined>>

\* the regenerate of the log-in succeeded before its serializer answered
RegeneratedBefore(io) ==
  \E j, k \in 1..Len(io) :
    /\ j < k
    /\ io[j].op = "regenerate" /\ io[j].ok
    /\ io[k].op = "serialize" /\ io[k].ok

\* C20: in the callback variant logIn regenerates the session before the
\* user is written: the session holds a user only after regenerate
\* succeeded, it is the regenerated session that holds it, and when
\* regenerate fails no user is written.
C20_RegenerateFirst ==
  \A r \in live :
    LET q == rq[r] IN
    /\ q.session.user # Undefined =>
         /\ RegeneratedBefore(q.io)
         /\ q.session.id = 2
    /\ q.stored.user # Undefined => q.stored.id = 2
    /\ IoHas(q.io, "regenerate", FALSE) =>
         q.session.user = Undefined /\ q.stored.user = Undefined

C20_Witness ==
  /\ 1 \in live
  /\ RegeneratedBefore(rq[1].io)
  /\ rq[1].session.user = Str("alice-id")
  /\ rq[1].session.id = 2
  /\ rq[1].stored = [id |-> 2, user |-> Str("alice-id")]
  /\ Settled(1)

\* the targets of a success redirect: successRedirect,
\* successReturnToOrRedirect, the session's returnTo
SuccessTargets == {Str("/home"), Str("/default"), Str("/back")}

SuccessRedirected(q) ==
  \E j \in 1..Len(q.res.redirects) : q.res.redirects[j] \in SuccessTargets

\* the middleware logs the user in: no callback, no assignProperty, session
\* not switched off
LogInPath ==
  /\ ~callback
  /\ ~Truthy(options.assignProperty)
  /\ Truthy(Coalesce(options.session, Bool(TRUE)))

LogInErrors ==
  {SessionSupportError, Obj("RegenerateError"), Obj("SerializeError"),
   Obj("SaveError")}

\* a success redirect is configured
SuccessRedirectSet ==
  Truthy(options.successRedirect) \/ Truthy(options.successReturnToOrRedirect)

------------------------------------------------------------------------------
\* The session strategy (unnamed/part_000 for the callback variant,
\* strategies/session.ts for the async variant) and the other operations of
\* the async session manager (unnamed/part_001:35-74).

\* Most operations the application calls on the async session manager.
MaxOps == 3

\* what the deserializer chain may report for a stored user: the outcomes
\* of the chains of at most two handlers
DeserializeOutcomes(variant, sessionUser) ==
  {RunChain(variant, "deserialize", stack, sessionUser).done[1] :
     stack \in StacksUpTo(OnceHandlers(variant), 2)}

\* sessionUser || sessionUser === 0 (part_000:117)
HasStoredUser(sessionUser) == Truthy(sessionUser) \/ sessionUser = Num(0)

\* !sessionUser is false (strategies/session.ts:48)
AsyncHasStoredUser(sessionUser) == Truthy(sessionUser)

\* a session strategy that fails the request whatever the session holds
SessionAuthenticateFails(t, q) ==
  Fail(t.req,
       LogEv(Io(q, "sessionUser", TRUE,
                IF q.session.hasKey THEN q.session.user ELSE Undefined),
             "fail", t.idx, t, <<Undefined, Undefined>>),
       t.idx, Undefined, Undefined)

\* SessionStrategy.authenticate of the callback variant, run by strategy
\* invocation t (part_000:102-141)
SessionAuthenticate(t, q) ==
  IF ~q.session.present
  THEN Eff(Error(LogEv(q, "error", t.idx, t, <<SessionSupportError>>),
                 SessionSupportError))
  ELSE LET sessionUser ==
             IF q.session.hasKey THEN q.session.user ELSE Undefined
           q1 == Io(q, "sessionUser", TRUE, sessionUser)
       IN IF HasStoredUser(sessionUser)
          THEN [q |-> Io(q1, "deserializeUser", TRUE, sessionUser),
                spawn |-> {Task("deserialize", t.req, t.idx, sessionUser,
                                Undefined, "")},
                aug |-> {}]
          ELSE Eff(Pass(LogEv(q1, "pass", t.idx, t, <<>>)))

\* a strategy that leaves the stale user in the session
DeserializedKeepsStale(t, q, err, user) ==
  IF Truthy(err) THEN Error(LogEv(q, "error", t.idx, t, <<err>>), err)
  ELSE Pass(LogEv(IF Truthy(user) THEN SetProp(q, "user", user) ELSE q,
                  "pass", t.idx, t, <<>>))

\* the callback given to this._deserializeUser (part_000:123-137)
Deserialized(t, q, err, user) ==
  IF Truthy(err) THEN Error(LogEv(q, "error", t.idx, t, <<err>>), err)
  ELSE LET q1 == IF ~Truthy(user)
                 THEN [q EXCEPT !.session.user = Undefined]
                 ELSE SetProp(q, "user", user)
       IN Pass(LogEv(q1, "pass", t.idx, t, <<>>))

\* SessionManager.getFlash of the callback variant (sessionmanager.ts:140-142)
GetFlash(sess, name) == Undefined

\* the session strategy of the request is invoked
SessionStrategyRuns(t) ==
  /\ Layer(t.idx) = Str("session")
  /\ Finish(t, 1, t.req, SessionAuthenticate(t, rq[t.req]))

\* the deserializer chain answers the session strategy
DeserializeDone(t) ==
  \E o \in DeserializeOutcomes("callback", t.user) :
    Finish(t, 1, t.req,
           Eff(Deserialized(t, Io(rq[t.req], "deserialize", ~Truthy(o.err),
                                  o.val),
                            o.err, o.val)))

\* the strategy signals an action through this.pass / this.error
AsyncSignal(a, ev, err) ==
  [a EXCEPT !.signals = Append(@, [ev |-> ev, err |-> err])]

\* the promise of the running operation resolves with val (ok) or rejects
\* with val
StoreSettle(a, ok, val) ==
  [AsyncSettle(a, IF ok THEN Undefined ELSE val)
     EXCEPT !.ret = Append(@, [op |-> a.op, arg |-> a.arg, ok |-> ok,
                               val |-> val]),
            !.arg = <<>>]

\* session.flash?.[name]
FlashOf(data, name) == IF data.flash.set THEN data.flash.at[name] ELSE Undefined

\* session.user === undefined (part_001:63-66)
IsUnauthenticated(data) == data.user = Undefined

\* after `await this.getSession()` of the operations that read or change
\* the session (part_001:35-74, strategies/session.ts:45-53)
StoreGot(a) ==
  CASE a.op = "authenticate" ->
         LET a1 == [AsyncIo(a, "sessionUser", TRUE, a.cookie.user)
                      EXCEPT !.session = a.cookie]
         IN IF ~AsyncHasStoredUser(a.cookie.user)
            THEN StoreSettle(AsyncSignal(a1, "pass", Undefined), TRUE,
                             Undefined)
            ELSE [AsyncIo(a1, "deserializeUser", TRUE, a.cookie.user)
                    EXCEPT !.pc = "deserialize"]
    [] a.op = "pluckReturnTo" ->
         [a EXCEPT !.session = [a.cookie EXCEPT !.returnTo = Undefined],
                   !.arg = <<a.cookie.returnTo>>, !.pc = "save"]
    [] a.op = "setFlash" ->
         [a EXCEPT !.session =
                     [a.cookie EXCEPT !.flash.set = TRUE,
                                      !.flash.at[a.arg[1]] = a.arg[2]],
                   !.pc = "save"]
    [] a.op = "getFlash" -> StoreSettle(a, TRUE, FlashOf(a.cookie, a.arg[1]))
    [] a.op = "isUnauthenticated" ->
         StoreSettle(a, TRUE, Bool(IsUnauthenticated(a.cookie)))
    [] a.op = "isAuthenticated" ->
         StoreSettle(a, TRUE, Bool(~IsUnauthenticated(a.cookie)))

\* the current-user slot of the async variant: the strategy keeps the
\* deserialized user in a local and pass() takes no argument
\* (strategies/session.ts:53-58), so nothing holds it
AsyncCurrentUser(a) == Undefined

\* after `await this._deserializeUser(sessionUser)`
\* (strategies/session.ts:53-60)
StoreDeserializedTo(a, err, user) ==
  IF Truthy(err)
  THEN StoreSettle(AsyncSignal(a, "error", err), TRUE, Undefined)
  ELSE IF ~Truthy(user)
       THEN [a EXCEPT !.session.user = Undefined, !.pc = "save"]
       ELSE StoreSettle(AsyncSignal(a, "pass", Undefined), TRUE, Undefined)

\* a save that reports success without sealing the session into the cookie
StoreSavedNotSealed(a, err) ==
  IF Truthy(err) THEN StoreSettle(a, FALSE, err)
  ELSE IF a.op = "authenticate"
       THEN StoreSettle(AsyncSignal(a, "pass", Undefined), TRUE, Undefined)
       ELSE StoreSettle(a, TRUE,
                        IF a.op = "pluckReturnTo" THEN a.arg[1] ELSE Undefined)

\* after `await session.save()` (strategies/session.ts:56-61,
\* part_001:39, 72-73)
StoreSavedTo(a, err) ==
  CASE a.op = "authenticate" ->
         IF Truthy(err)
         THEN StoreSettle(AsyncSignal(a, "error", err), TRUE, Undefined)
         ELSE StoreSettle(AsyncSignal([a EXCEPT !.cookie = a.session],
                                      "pass", Undefined),
                          TRUE, Undefined)
    [] a.op = "pluckReturnTo" ->
         IF Truthy(err) THEN StoreSettle(a, FALSE, err)
         ELSE StoreSettle([a EXCEPT !.cookie = a.session], TRUE, a.arg[1])
    [] a.op = "setFlash" ->
         IF Truthy(err) THEN StoreSettle(a, FALSE, err)
         ELSE StoreSettle([a EXCEPT !.cookie = a.session], TRUE, Undefined)

StoreOps ==
  {<<"authenticate", <<>>>>, <<"pluckReturnTo", <<>>>>,
   <<"isAuthenticated", <<>>>>, <<"isUnauthenticated", <<>>>>}
    \cup {<<"getFlash", <<k>>>> : k \in {"error", "info"}}
    \cup {<<"setFlash", <<k, Str(m)>>>> : k \in {"error", "info"},
                                          m \in {"saved", "sent"}}

\* the application, or the middleware for `authenticate`, calls an
\* operation once the one before it has settled
StoreCall ==
  /\ ax.op = "idle" /\ Len(ax.results) < MaxOps
  /\ \E c \in StoreOps :
       ax' = [ax EXCEPT !.op = c[1], !.arg = c[2], !.pc = "getSession"]
  /\ UNCHANGED <<cfg, strategies, bound, rq, tasks, live, ch>>

\* getSession() settles for the operation
StoreGotSession ==
  /\ ax.op \notin {"none", "idle", "logIn", "logOut"} /\ ax.pc = "getSession"
  /\ \E err \in {Undefined, Obj("SessionError")} :
       ax' = IF Truthy(err)
             THEN StoreSettle(AsyncIo(ax, "getSession", FALSE, err), FALSE, err)
             ELSE StoreGot(AsyncIo(ax, "getSession", TRUE, err))
  /\ UNCHANGED <<cfg, strategies, bound, rq, tasks, live, ch>>

\* the deserializer chain settles for the session strategy
StoreDeserialized ==
  /\ ax.op = "authenticate" /\ ax.pc = "deserialize"
  /\ \E o \in DeserializeOutcomes("async", ax.cookie.user) :
       ax' = StoreDeserializedTo(
               AsyncIo(ax, "deserialize", ~Truthy(o.err), o.val), o.err, o.val)
  /\ UNCHANGED <<cfg, strategies, bound, rq, tasks, live, ch>>

\* session.save() settles for the operation
StoreSaved ==
  /\ ax.op \in {"authenticate", "pluckReturnTo", "setFlash"} /\ ax.pc = "save"
  /\ \E err \in {Undefined, Obj("SaveError")} :
       ax' = StoreSavedTo(AsyncIo(ax, "save", ~Truthy(err), err), err)
  /\ UNCHANGED <<cfg, strategies, bound, rq, tasks, live, ch>>

\* strategy invocations of entries other than the session strategy
Foreign == {t \in Signalling(1) : Layer(t.idx) # Str("session")}

NextRestore ==
  \/ \E r \in live : Request(r)
  \/ \E t \in Foreign : StrategyFail(t, 1)
  \/ \E t \in Signalling(1) : SessionStrategyRuns(t)
  \/ \E t \in Waiting("deserialize") : DeserializeDone(t)
  \/ StoreCall
  \/ StoreGotSession
  \/ StoreDeserialized
  \/ StoreSaved

\* the sessions a request may arrive with: none, an empty one, one whose
\* passport key holds nothing, a user id, the id 0 or the empty id
RestoreSessions ==
  {NoSession, FreshSession(1)}
    \cup {[FreshSession(1) EXCEPT !.hasKey = TRUE, !.user = u] :
            u \in {Undefined, Str("alice-id"), Num(0), Str("")}}

\* the cookies the async variant may find
RestoreCookies ==
  {[NoData EXCEPT !.id = 1, !.user = u, !.returnTo = rt] :
     u \in {Undefined, Str("alice-id"), Num(0)},
     rt \in {Undefined, Str("/back")}}

\* one request through authenticate(passport, names) with the session
\* strategy among the names, or the async session manager and strategy
InitRestore ==
  \/ /\ strategies = Registry([nm \in {"session", "basic"} |->
                        IF nm = "session" THEN "SessionStrategy"
                        ELSE "BasicStrategy"])
     /\ \E nms \in {<<Str("session")>>, <<Str("basic"), Str("session")>>,
                    <<Str("basic")>>},
           o \in {DefaultOptions,
                  [DefaultOptions EXCEPT !.failureFlash = Bool(TRUE)]},
           cb \in BOOLEAN :
          cfg = [names |-> nms, multi |-> TRUE, callback |-> cb, options |-> o]
     /\ bound = [s \in Instances |-> [req |-> 0, idx |-> 0]]
     /\ live = {1}
     /\ \E sess \in RestoreSessions : rq = [r \in {1} |-> InitReq(sess)]
     /\ tasks = EmptyBag
     /\ ch = NoChain
     /\ ax = NoAsync
  \/ /\ NoRequests
     /\ ch = NoChain
     /\ \E c \in RestoreCookies : ax = [NewAsync EXCEPT !.cookie = c]

SpecRestore == InitRestore /\ [][NextRestore]_vars

\* the session-storage operations of the callback variant that may fail
StorageOps == {"regenerate", "save", "logout-save", "logout-regenerate"}

\* an error reached the caller of the request's operation: next(err),
\* callback(err) or done(err)
ErrorReported(q, err) ==
  \/ \E j \in 1..Len(q.nextCalls) : q.nextCalls[j] = err
  \/ \E j \in 1..Len(q.cbCalls) : q.cbCalls[j].err = err
  \/ \E j \in 1..Len(q.doneCalls) : q.doneCalls[j] = err

\* C22: a session-storage operation (obtaining the session, save,
\* regenerate) that fails during session-strategy authentication, logIn or
\* logOut is reported to the caller: the error it failed with is signalled
\* as an error action, handed to next, to the application callback or to
\* done, or the awaited operation rejects with it.
C22_FailuresReported ==
  /\ \A r \in live :
       LET q == rq[r] IN
       \A j \in 1..Len(q.io) :
         (q.io[j].op \in StorageOps /\ ~q.io[j].ok) =>
           ErrorReported(q, q.io[j].val)
  /\ ax.op # "none" =>
       \A j \in 1..Len(ax.io) :
         (ax.io[j].op \in {"getSession", "save"} /\ ~ax.io[j].ok) =>
           \/ \E k \in 1..Len(ax.results) : ax.results[k].err = ax.io[j].val
           \/ \E k \in 1..Len(ax.signals) :
                ax.signals[k] = [ev |-> "error", err |-> ax.io[j].val]

\* the chain resolved "no user": it reported false for null or false
NoUser(e) == e.op = "deserialize" /\ e.ok /\ e.val = Bool(FALSE)

\* the Failures on the request are those of the fails that were signalled
OnlySignalledFailures(q) ==
  Len(q.failures) = Len(SelectSeq(q.log, LAMBDA e : e.ev = "fail"))

\* what the callback variant does when the chain resolved "no user"
NoUserCallback ==
  \A r \in live :
    LET q == rq[r] IN
    (Len(q.io) > 0 /\ NoUser(Last(q.io))) =>
      /\ q.session.user = Undefined
      /\ Last(q.log).ev = "pass"
      /\ \A j \in 1..Len(q.log) : q.log[j].ev \in {"fail", "pass"}
      /\ OnlySignalledFailures(q)
      /\ q.nextCalls = <<Undefined>>
      /\ q.user = Undefined
      /\ q.cbCalls = <<>> /\ q.res = InitRes /\ q.allFailed = 0
      /\ Settled(r)

\* the save of the removal has settled
SavedNoUser(io) ==
  Len(io) > 1 /\ Last(io).op = "save" /\ NoUser(io[Len(io) - 1])

\* C23 as stated: when the deserializer chain resolves "no user" the
\* session strategy removes the user from the session and signals pass,
\* never fail or error, and no Failure is recorded.
C23_NoUserPasses ==
  /\ NoUserCallback
  /\ ax.op # "none" =>
       /\ (Len(ax.io) > 0 /\ NoUser(Last(ax.io))) =>
            ax.session.user = Undefined /\ ax.pc = "save"
       /\ SavedNoUser(ax.io) =>
            /\ Last(ax.signals) = [ev |-> "pass", err |-> Undefined]
            /\ ax.cookie.user = Undefined

\* C23, amended: when the deserializer chain resolves "no user" the
\* session strategy removes the user from the session and signals pass,
\* never fail, and no Failure is recorded; the async variant saves the
\* session first and, when that save fails, signals error with the save's
\* error instead, the stored session keeping the user.
C23_NoUserPassesIfSaved ==
  /\ NoUserCallback
  /\ ax.op # "none" =>
       /\ (Len(ax.io) > 0 /\ NoUser(Last(ax.io))) =>
            ax.session.user = Undefined /\ ax.pc = "save"
       /\ SavedNoUser(ax.io) =>
            /\ Last(ax.ret) = [op |-> "authenticate", arg |-> <<>>,
                               ok |-> TRUE, val |-> Undefined]
            /\ IF Last(ax.io).ok
               THEN /\ Last(ax.signals) = [ev |-> "pass", err |-> Undefined]
                    /\ ax.cookie.user = Undefined
               ELSE /\ Last(ax.signals) = [ev |-> "error",
                                          err |-> Last(ax.io).val]
                    /\ ax.cookie.user # Undefined
       /\ \A j \in 1..Len(ax.signals) : ax.signals[j].ev \in {"pass", "error"}

C23_Witness ==
  /\ ax.op = "idle"
  /\ SavedNoUser(ax.io) /\ Last(ax.io).ok
  /\ IoVal(ax.io, "sessionUser") = Str("alice-id")
  /\ ax.signals = <<[ev |-> "pass", err |-> Undefined]>>
  /\ ax.cookie.user = Undefined

\* the chain yielded a truthy user
Restored(e) == e.op = "deserialize" /\ e.ok /\ Truthy(e.val)

\* C24: when the session holds a stored user and the deserializer chain
\* yields a truthy user u for it, the session strategy assigns u to the
\* current-user slot and then signals pass: once it has passed, the current
\* user is u.
C24_UserRestored ==
  /\ \A r \in live :
       LET q == rq[r] IN
       (Len(q.io) > 0 /\ Restored(Last(q.io))) =>
         /\ q.user = Last(q.io).val
         /\ Last(q.log).ev = "pass"
         /\ q.nextCalls = <<Undefined>>
  /\ (ax.op # "none" /\ Len(ax.io) > 0 /\ Restored(Last(ax.io))) =>
       /\ Last(ax.signals) = [ev |-> "pass", err |-> Undefined]
       /\ AsyncCurrentUser(ax) = Last(ax.io).val

\* the strategy read the session and found no stored user
ReadNoUser(e) == e.op = "sessionUser" /\ e.val = Undefined

\* C25: when the session holds no stored user the session strategy
\* signals pass and not fail: the deserializer chain is not invoked, no
\* Failure is recorded, the session is left as it was and the request goes
\* on to the next handler.
C25_AbsentPasses ==
  /\ \A r \in live :
       LET q == rq[r] IN
       \A j \in 1..Len(q.io) :
         ReadNoUser(q.io[j]) =>
           /\ j = Len(q.io)
           /\ Last(q.log).ev = "pass"
           /\ \A k \in 1..Len(q.log) : q.log[k].ev \in {"fail", "pass"}
           /\ OnlySignalledFailures(q)
           /\ q.session \in {sess \in RestoreSessions : sess.user = Undefined}
           /\ q.nextCalls = <<Undefined>>
           /\ q.cbCalls = <<>> /\ q.res = InitRes /\ q.allFailed = 0
           /\ Settled(r)
  /\ ax.op # "none" =>
       /\ \A j \in 1..Len(ax.io) :
            ReadNoUser(ax.io[j]) =>
              (j = Len(ax.io) \/ ax.io[j + 1].op # "deserializeUser")
       /\ (Len(ax.io) > 0 /\ ReadNoUser(Last(ax.io))) =>
            /\ Last(ax.signals) = [ev |-> "pass", err |-> Undefined]
            /\ ax.session = ax.cookie
            /\ ax.cookie.user = Undefined
            /\ Last(ax.ret).op = "authenticate" /\ Last(ax.ret).ok

C25_Witness ==
  /\ 1 \in live
  /\ names = <<Str("basic"), Str("session")>>
  /\ rq[1].session = [FreshSession(1) EXCEPT !.hasKey = TRUE]
  /\ Len(rq[1].io) > 0 /\ ReadNoUser(Last(rq[1].io))
  /\ Len(rq[1].failures) = 1
  /\ Last(rq[1].log).ev = "pass"
  /\ rq[1].nextCalls = <<Undefined>>

\* the operation op has just resolved
Returned(a, b, op) ==
  /\ a.op # "none"
  /\ Len(b.ret) > Len(a.ret)
  /\ Last(b.ret).op = op /\ Last(b.ret).ok

\* an earlier call of pluckReturnTo resolved
Plucked(a) ==
  \E j \in 1..Len(a.ret) : a.ret[j].op = "pluckReturnTo" /\ a.ret[j].ok

\* C26: pluckReturnTo reads and clears the stored redirect target in one
\* operation: a call that returns hands over the value the session held
\* and leaves the stored session without one, so with v stored the first
\* call returns v and every later call returns undefined; a call whose
\* save fails returns nothing and leaves the stored session as it was.
C26_PluckOnce ==
  [][/\ Returned(ax, ax', "pluckReturnTo") =>
          /\ Last(ax'.ret).val = ax.cookie.returnTo
          /\ ax'.cookie = [ax.cookie EXCEPT !.returnTo = Undefined]
          /\ Last(ax'.io) = [op |-> "save", ok |-> TRUE, val |-> Undefined]
          /\ Plucked(ax) => Last(ax'.ret).val = Undefined
     /\ (/\ ax.op = "pluckReturnTo"
         /\ Len(ax'.ret) > Len(ax.ret) /\ ~Last(ax'.ret).ok) =>
          ax'.cookie = ax.cookie]_vars

C26_Witness ==
  /\ ax.op = "idle" /\ Len(ax.ret) = 2
  /\ ax.ret[1] = [op |-> "pluckReturnTo", arg |-> <<Str("/back")>>,
                  ok |-> TRUE, val |-> Str("/back")]
  /\ ax.ret[2] = [op |-> "pluckReturnTo", arg |-> <<Undefined>>,
                  ok |-> TRUE, val |-> Undefined]
  /\ ax.cookie.returnTo = Undefined

\* no setFlash(kind, ...) was called between the calls j and k
NoSetBetween(ret, j, k, kind) ==
  \A i \in (j + 1)..(k - 1) :
    ~(ret[i].op = "setFlash" /\ ret[i].arg[1] = kind)

IsGetFlash(e) == e.op = "getFlash" /\ e.ok
IsSetFlash(e) == e.op = "setFlash" /\ e.ok

\* C27: setFlash / getFlash are a one-shot keyed store: after
\* setFlash(kind, m), getFlash(kind) returns m, and a message that
\* getFlash(kind) has returned is not returned by a later getFlash(kind)
\* unless setFlash(kind, ...) was called in between; in the callback
\* variant a message flashed on the request is what getFlash returns.
C27_FlashOneShot ==
  /\ \A r \in live :
       \A j \in 1..Len(rq[r].flashCalls) :
         GetFlash(rq[r].session, rq[r].flashCalls[j][1])
           = rq[r].flashCalls[j][2]
  /\ ax.op # "none" =>
       \A j, k \in 1..Len(ax.ret) :
         (j < k /\ IsGetFlash(ax.ret[k])) =>
           /\ (/\ IsSetFlash(ax.ret[j])
               /\ ax.ret[j].arg[1] = ax.ret[k].arg[1]
               /\ k = j + 1) =>
                ax.ret[k].val = ax.ret[j].arg[2]
           /\ (/\ IsGetFlash(ax.ret[j])
               /\ ax.ret[j].arg[1] = ax.ret[k].arg[1]
               /\ ax.ret[j].val # Undefined
               /\ NoSetBetween(ax.ret, j, k, ax.ret[k].arg[1])) =>
                ax.ret[k].val = Undefined

\* the session state holds a user value
HoldsUser(sess) == sess.present /\ sess.hasKey /\ sess.user # Undefined

\* C28: isAuthenticated() is true exactly when the session state holds a
\* user value, isUnauthenticated() is its negation, and the answer agrees
\* with what the session strategy takes for a stored user.
C28_AuthenticatedIffUser ==
  /\ \A r \in live :
       LET q == rq[r] IN
       Settled(r) =>
         /\ IsAuthenticated(q) <=> HoldsUser(q.session)
         /\ IsAuthenticated(q) <=>
              (q.session.present /\ q.session.hasKey
                 /\ HasStoredUser(q.session.user))
  /\ (ax.op # "none" /\ Len(ax.ret) > 0 /\ Last(ax.ret).ok) =>
       /\ Last(ax.ret).op = "isAuthenticated" =>
            /\ Last(ax.ret).val = Bool(ax.cookie.user # Undefined)
            /\ Last(ax.ret).val = Bool(AsyncHasStoredUser(ax.cookie.user))
       /\ Last(ax.ret).op = "isUnauthenticated" =>
            Last(ax.ret).val = Bool(ax.cookie.user = Undefined)

\* entry i (from 0) names something attempt can invoke
Invocable(i) ==
  Truthy(Layer(i)) /\ (IsStrategy(Layer(i)) \/ Truthy(Strategy_(Layer(i).s)))

\* the strategy invocations of request r that have not signalled yet
Running(r) ==
  {t \in BagToSet(tasks) : t.kind = "strategy" /\ t.req = r /\ t.n = 0}

\* C29: within one request the strategies run strictly in specifier order
\* and never two at a time: entry i+1 is invoked only after entry i
\* signalled fail, the entries are invoked in increasing order with none
\* skipped or repeated, and each at most once.
C29_InOrder ==
  \A r \in live :
    LET q == rq[r] IN
    /\ \A i \in 1..Len(names) :
         /\ q.calls[i] <= 1
         /\ q.calls[i] = 1 =>
              /\ FailedUpTo(q, i)
              /\ \A j \in 1..(i - 1) : q.calls[j] = 1
         /\ (/\ i < Len(names) /\ Len(q.log) >= i
             /\ q.log[i].ev = "fail" /\ Invocable(i)) =>
              q.calls[i + 1] = 1
    /\ Cardinality(Running(r)) <= 1
    /\ \A t \in Running(r) :
         /\ CopiesIn(t, tasks) = 1
         /\ Len(q.log) = t.idx
         /\ \A i \in 1..Len(names) : q.calls[i] = 1 <=> i <= t.idx + 1

C29_Witness ==
  /\ names = <<Str("basic"), StrategyObj("inst")>>
  /\ rq[1].calls = <<1, 1>>
  /\ Len(rq[1].log) = 1 /\ rq[1].log[1].ev = "fail" /\ rq[1].log[1].idx = 0
  /\ \E t \in Running(1) : t.idx = 1

\* the answer is neither an error nor a value the chain takes for a result
NoOutcome(c, a) ==
  LET args == PassArgs(c, a) IN
  /\ ~Truthy(SkipToUndefined(args[1]))
  /\ ~Obtained(c.kind, args[2])
  /\ ~(c.kind = "deserialize" /\ args[2] \in {Null, Bool(FALSE)})

\* the answer invocation k gave, if it gave one
AnswerOf(c, k) == c.stack[c.invoked[k].pos + 1].calls[1]

\* C30: the handlers of a chain run strictly in registration order and
\* never two at a time: handler i+1 is invoked only after handler i
\* answered without an outcome (skip), every handler receives the input of
\* the run, and an error or a result of handler i ends the run with that
\* error or result and no handler after i is invoked.
C30_ChainInOrder ==
  ch.variant # "none" =>
    /\ \A k \in 1..Len(ch.invoked) :
         /\ ch.invoked[k].pos = k - 1
         /\ ch.invoked[k].input = ch.input
         /\ k < Len(ch.invoked) =>
              /\ ~ch.stack[k].throws
              /\ ch.made[k] = 1
              /\ NoOutcome(ch, AnswerOf(ch, k))
         /\ (ch.made[k] = 1 /\ ~NoOutcome(ch, AnswerOf(ch, k))) =>
              /\ Len(ch.invoked) = k
              /\ Len(ch.done) = 1
              /\ LET args == PassArgs(ch, AnswerOf(ch, k)) IN
                 IF Truthy(SkipToUndefined(args[1]))
                 THEN ch.done[1].err = args[1]
                 ELSE /\ ~Truthy(ch.done[1].err)
                      /\ ch.done[1].val =
                           IF Truthy(args[2]) \/ args[2] = Num(0)
                           THEN args[2] ELSE Bool(FALSE)
         /\ ch.stack[k].throws =>
              /\ Len(ch.invoked) = k
              /\ ch.done = <<Answer(HandlerError, Undefined)>>
    /\ Cardinality(Answering(ch)) <= 1
    /\ Answering(ch) \subseteq {Len(ch.invoked)}

C30_Witness ==
  /\ Finished(ch) /\ ch.variant = "callback" /\ ch.kind = "deserialize"
  /\ ch.stack = <<Handler(<<Answer(PassSentinel, Undefined)>>, FALSE),
                  Handler(<<Answer(HandlerError, Undefined)>>, FALSE),
                  Handler(<<Answer(Null, Obj("value"))>>, FALSE)>>
  /\ ch.input = Obj("input")
  /\ ch.invoked = <<[pos |-> 0, input |-> Obj("input")],
                    [pos |-> 1, input |-> Obj("input")]>>
  /\ ch.done = <<Answer(HandlerError, Undefined)>>

\* no handler of the chain produces an outcome: each answers once, with
\* neither an error nor a value the chain takes for a result
NoneProduces(c) ==
  \A i \in 1..Len(c.stack) :
    /\ ~c.stack[i].throws /\ Len(c.stack[i].calls) = 1
    /\ NoOutcome(c, c.stack[i].calls[1])

\* C31: a serializer or deserializer chain that is exhausted without a
\* result (no handlers, or handlers that all skip) ends with the error
\* 'Failed to serialize user into session' / 'Failed to deserialize user
\* out of session', after every handler was invoked, and never with a
\* successful empty result.
C31_ExhaustionFails ==
  (Finished(ch) /\ ch.kind \in {"serialize", "deserialize"}
     /\ NoneProduces(ch)) =>
    /\ ch.done = <<Answer(ExhaustedError(ch.kind), Undefined)>>
    /\ Truthy(ch.done[1].err)
    /\ Len(ch.invoked) = Len(ch.stack)

C31_Witness ==
  /\ Finished(ch) /\ ch.variant = "async" /\ ch.kind = "deserialize"
  /\ ch.stack = <<Handler(<<Answer(PassSentinel, Undefined)>>, FALSE),
                  Handler(<<Answer(Undefined, Undefined)>>, FALSE)>>
  /\ Len(ch.invoked) = 2
  /\ ch.done =
       <<Answer(Obj("Failed to deserialize user out of session"), Undefined)>>

\* the challenge of the first recorded Failure, if there is one
FirstChallenge(q) ==
  IF Len(q.failures) > 0 THEN q.failures[1].challenge ELSE Undefined

\* what an enabled failureFlash / failureMessage option asks to store
Wanted(option, q) == IF option.t = "string" THEN option ELSE FirstChallenge(q)

\* C32: on exhaustion without a callback, an enabled failureFlash hands
\* req.flash, and so stores as the session's 'error' flash, and an enabled
\* failureMessage appends to the session's message list, the option's
\* string when it is one and else the challenge of the first recorded
\* Failure, never that of a later one; nothing is flashed, stored or
\* appended when that value is not a string or the option is off.
C32_FirstFailureText ==
  \A r \in live :
    LET q == rq[r]
        flash == Wanted(options.failureFlash, q)
        message == Wanted(options.failureMessage, q)
    IN (q.allFailed = 1 /\ ~callback) =>
         /\ q.flashCalls =
              IF options.failureFlash # Undefined /\ flash.t = "string"
              THEN <<(<<"error", flash>>)>> ELSE <<>>
         /\ q.session.present =>
              /\ GetFlash(q.session, "error") =
                   IF options.failureFlash # Undefined /\ flash.t = "string"
                   THEN flash ELSE Undefined
              /\ q.session.messages =
                   IF options.failureMessage # Undefined /\ message.t = "string"
                   THEN Arr(<<message>>) ELSE Undefined

\* the middleware reached the end of the list without an application
\* callback, and the failureMessage store did not throw for lack of a
\* session
Exhaustion(q) ==
  q.allFailed = 1 /\ ~callback
    /\ \A j \in 1..Len(q.thrown) : q.thrown[j] # TypeError

\* C33: on exhaustion without a callback exactly one failure outcome is
\* produced.  With failureRedirect the response redirects there and neither
\* status nor challenge header is computed; else with failWithError an
\* AuthenticationError goes to next, its status that of the response (401
\* when no Failure carried a status), and the response is not ended; else
\* the response is ended with the aggregate status.
C33_FailurePrecedence ==
  \A r \in live :
    LET q == rq[r] IN
    Exhaustion(q) =>
      IF options.failureRedirect # Undefined
      THEN /\ q.res.redirects = <<options.failureRedirect>>
           /\ q.res.ends = 0 /\ q.nextCalls = <<>>
           /\ q.res.statusCode = InitRes.statusCode
           /\ ~q.res.wwwAuthenticate.set
      ELSE IF options.failWithError = Bool(TRUE)
      THEN /\ Len(q.nextCalls) = 1
           /\ q.nextCalls[1].s = "AuthenticationError"
           /\ q.nextCalls[1].n = q.res.statusCode
           /\ (\A j \in 1..Len(q.failures) : q.failures[j].status = Undefined)
                => q.nextCalls[1].n = 401
           /\ q.res.ends = 0 /\ q.res.redirects = <<>>
      ELSE /\ q.res.ends = 1
           /\ q.nextCalls = <<>> /\ q.res.redirects = <<>>
           /\ (\A j \in 1..Len(q.failures) : q.failures[j].status = Undefined)
                => q.res.statusCode = 401

C33_Witness ==
  /\ Exhaustion(rq[1])
  /\ options.failureRedirect = Undefined
  /\ options.failWithError = Bool(TRUE)
  /\ rq[1].failures = <<[challenge |-> Str("Bearer"), status |-> Undefined],
                        [challenge |-> Undefined, status |-> Num(403)]>>
  /\ Len(rq[1].nextCalls) = 1
  /\ rq[1].nextCalls[1].s = "AuthenticationError" /\ rq[1].nextCalls[1].n = 403
  /\ rq[1].res.ends = 0

\* req.logIn of the success path ended without an error for request r
\* and whatever it started has answered
LoggedIn(r) ==
  LET q == rq[r] IN
  /\ ~callback /\ ~Truthy(options.assignProperty)
  /\ IoHas(q.io, "logIn", TRUE)
  /\ Truthy(Coalesce(options.session, Bool(TRUE))) => IoHas(q.io, "save", TRUE)
  /\ \A t \in BagToSet(tasks) : t.req # r

\* the step in which the log-in of request r ends without an error and
\* what it started has answered
LogInEnds(r) == ~LoggedIn(r) /\ LoggedIn(r)'

\* the response after a log-in that found the request as before and left
\* it as after: the redirect goes to the returnTo the session held before
\* when it held one, which the session then no longer holds, else to the
\* configured successReturnToOrRedirect; without that option to
\* successRedirect; without both next() is called and nothing is redirected
Completed(before, after) ==
  IF options.successReturnToOrRedirect # Undefined
  THEN /\ after.res.redirects =
            <<IF before.session.present /\ before.session.returnTo # Undefined
              THEN before.session.returnTo
              ELSE options.successReturnToOrRedirect>>
       /\ after.session.returnTo = Undefined
       /\ after.nextCalls = <<>>
  ELSE /\ after.session.returnTo = before.session.returnTo
       /\ IF options.successRedirect # Undefined
          THEN /\ after.res.redirects = <<options.successRedirect>>
               /\ after.nextCalls = <<>>
          ELSE /\ after.res.redirects = <<>>
               /\ after.nextCalls = <<Undefined>>

\* the info-transform chain, run after the log-in, answered with an error
TransformFailed(q) == IoHas(q.io, "transform", FALSE)

\* the error went to next, nothing was redirected and the session was left
\* alone
ErrorForwarded(before, after) ==
  /\ after.nextCalls = <<IoVal(after.io, "transform")>>
  /\ after.res = InitRes
  /\ after.session = before.session

\* C34 as stated: the step that ends a successful log-in on the success
\* path redirects the response to the returnTo the session held (removing
\* it) or else to successReturnToOrRedirect, else to successRedirect, else
\* calls next() without a redirect.
C34_RedirectAfterLogIn ==
  [][\A r \in live : LogInEnds(r) => Completed(rq[r], rq'[r])]_vars

\* C34: the step that ends a successful log-in on the success path, unless
\* the info-transform chain answered with an error (which then is what next
\* is called with, and nothing is redirected), redirects the response to
\* the returnTo the session held, which is removed, or else to
\* successReturnToOrRedirect, else to successRedirect, else calls next()
\* without a redirect.
C34_RedirectAfterLogInAndTransform ==
  [][\A r \in live :
       LogInEnds(r) =>
         IF TransformFailed(rq'[r])
         THEN options.authInfo # Bool(FALSE) /\ ErrorForwarded(rq[r], rq'[r])
         ELSE Completed(rq[r], rq'[r])]_vars

C34_Witness ==
  /\ LoggedIn(1)
  /\ options.successReturnToOrRedirect = Str("/default")
  /\ options.successRedirect = Str("/home")
  /\ IoHas(rq[1].io, "transform", TRUE)
  /\ rq[1].res.redirects = <<Str("/back")>>
  /\ rq[1].session.present /\ rq[1].session.returnTo = Undefined
  /\ rq[1].nextCalls = <<>>

------------------------------------------------------------------------------
\* The strategy registry (authenticator.ts:61-136 for the callback variant,
\* 566-624 for the async variant; both read alike).

\* use(name, strategy) and use(strategy): this._strategies[name] = strategy,
\* an assignment that makes an own property, or for __proto__ calls the
\* setter of Object.prototype, which replaces the prototype
Use(reg, nameOrStrategy, strategy) ==
  LET named == Truthy(strategy)
      s == IF named THEN strategy ELSE nameOrStrategy
      name == IF named THEN nameOrStrategy.s ELSE StrategyName(s.s)
  IN IF name = "__proto__" THEN [reg EXCEPT !.proto = s.s]
     ELSE [reg EXCEPT !.own = [n \in DOMAIN reg.own \cup {name} |->
                                IF n = name THEN s.s ELSE reg.own[n]]]

\* unuse(name): delete this._strategies[name], which removes an own
\* property and nothing else
Unuse(reg, name) ==
  [reg EXCEPT !.own = [n \in DOMAIN reg.own \ {name} |-> reg.own[n]]]

\* the registry when the constructor returns: the session strategy was
\* registered with use(strategy)
Constructed == Use(Registry(<<>>), StrategyObj("SessionStrategy"), Undefined)

\* names and strategies the application registers
RegistryNames == {"session", "basic", "constructor", "__proto__"}
Registrable == {"SessionStrategy", "BasicStrategy", "LocalStrategy"}

\* the application calls passport.use(name, strategy) or passport.use(strategy)
UseCalled(nameOrStrategy, strategy) ==
  /\ strategies' = Use(strategies, nameOrStrategy, strategy)
  /\ UNCHANGED <<cfg, bound, rq, tasks, live, ch, ax>>

\* the application calls passport.unuse(name)
UnuseCalled(name) ==
  /\ strategies' = Unuse(strategies, name)
  /\ UNCHANGED <<cfg, bound, rq, tasks, live, ch, ax>>

NextRegistry ==
  \/ \E n \in RegistryNames, s \in Registrable :
       UseCalled(Str(n), StrategyObj(s))
  \/ \E s \in Registrable : UseCalled(StrategyObj(s), Undefined)
  \/ \E n \in RegistryNames : UnuseCalled(n)
  \/ \E r \in live : Request(r)
  \/ \E t \in Signalling(1) : StrategyPass(t, 1)

\* an Authenticator was constructed and a middleware made for one name
InitRegistry ==
  /\ strategies = Constructed
  /\ \E n \in RegistryNames \cup {"local"} :
       cfg = [names |-> Normalize(Str(n)).names,
              multi |-> Normalize(Str(n)).multi,
              callback |-> FALSE, options |-> DefaultOptions]
  /\ bound = [s \in Instances |-> [req |-> 0, idx |-> 0]]
  /\ live = {1}
  /\ rq = [r \in {1} |-> InitReq(FreshSession(1))]
  /\ tasks = EmptyBag
  /\ ch = NoChain
  /\ ax = NoAsync

SpecRegistry == InitRegistry /\ [][NextRegistry]_vars

\* the names that may be asked for
Askable == RegistryNames \cup {"local"}

\* a request of the middleware, arriving now, ends with the
\* unknown-strategy error and invokes nothing
EndsUnknown ==
  LET e == Attempt(1, [InitReq(FreshSession(1)) EXCEPT !.started = TRUE], 0)
  IN /\ e.q.nextCalls = <<UnknownStrategyError>>
     /\ e.q.thrown = <<>>
     /\ e.spawn = {}

\* C35: after construction 'session' resolves to the built-in session
\* strategy; use(name, s), or use(s) with name = s.name, makes the name
\* resolve to s, the latest registration winning; after unuse(name) an
\* authentication attempt that names it ends with the unknown-strategy
\* error; use and unuse leave the binding of every other name as it was.
C35_Registry ==
  /\ Strategy_("session") = StrategyObj("SessionStrategy")
  /\ [][/\ \A n \in RegistryNames, s \in Registrable :
             (UseCalled(Str(n), StrategyObj(s))
                \/ (n = StrategyName(s) /\ UseCalled(StrategyObj(s), Undefined)))
               => /\ Strategy_(n)' = StrategyObj(s)
                  /\ \A m \in Askable \ {n} : Strategy_(m)' = Strategy_(m)
        /\ \A n \in RegistryNames :
             UnuseCalled(n) =>
               /\ \A m \in Askable \ {n} : Strategy_(m)' = Strategy_(m)
               /\ names = <<Str(n)>> => EndsUnknown']_vars

------------------------------------------------------------------------------
\* One request that is served to its end: every strategy that is invoked
\* signals one action, and every callback the request waits for
\* (regenerate, the serializer chain, the info-transform chain) is called.

InitServed ==
  InitWith({1}, BOOLEAN,
           {DefaultOptions,
            [DefaultOptions EXCEPT !.session = Bool(FALSE)],
            [DefaultOptions EXCEPT !.assignProperty = Str("account")],
            [DefaultOptions EXCEPT !.successRedirect = Str("/home")],
            [DefaultOptions EXCEPT !.failureRedirect = Str("/login")]},
           {FreshSession(1)})

SpecServed == InitServed /\ [][Next]_vars /\ WF_vars(Next)

\* the terminal outcomes the request has had: the response ended or
\* redirected, next called, the application callback called
Outcomes(q) ==
  q.res.ends + Len(q.res.redirects) + Len(q.nextCalls) + Len(q.cbCalls)

\* every entry of the specifier is a strategy or a non-empty name
NamesGiven == \A i \in 1..Len(names) : names[i] # Str("")

\* C36: a request whose strategies each signal one action and whose
\* session and chain callbacks are all called has exactly one terminal
\* outcome in the end (response ended or redirected, next called, or the
\* application callback called), never two and never the same one twice,
\* the default success path through req.logIn and the serializer chain
\* included.
C36_OneOutcome ==
  /\ [](NamesGiven => Outcomes(rq[1]) <= 1)
  /\ NamesGiven ~> (Outcomes(rq[1]) = 1)

\* a step of the session log-in of the request failed
LogInStepFailed(q) ==
  \/ ~q.session.present
  \/ IoHas(q.io, "regenerate", FALSE)
  \/ IoHas(q.io, "serialize", FALSE)
  \/ IoHas(q.io, "save", FALSE)

\* SessionManager.logIn was called for the request, with session
\* persistence on, and everything it started has answered
LogInOver(r) ==
  /\ IoHas(rq[r].io, "logIn", TRUE) /\ ~IoHas(rq[r].io, "logOut", TRUE)
  /\ ~Truthy(options.assignProperty)
  /\ Truthy(Coalesce(options.session, Bool(TRUE)))
  /\ Settled(r)

\* C37: SessionManager.logIn(req, user, cb) and logIn(req, user, options,
\* cb) behave the same: when no step fails the serialized user is stored
\* in the regenerated session and saved, and in both forms cb is called
\* exactly once when the log-in is over, with an error exactly when a step
\* (missing session, regenerate, serialize, save) failed.  The application
\* calls the first form directly (its cb is done); req.logIn calls the
\* second (its cb resets the user and calls next(err) on an error).
C37_TwoConventions ==
  \A r \in live :
    LET q == rq[r]
        direct == q.log = <<>>
        failed == LogInStepFailed(q)
    IN LogInOver(r) =>
         /\ ~failed => /\ q.session.user = IoVal(q.io, "serialize")
                       /\ q.stored = Saved(q.session)
         /\ direct => /\ Len(q.doneCalls) = 1
                      /\ Truthy(q.doneCalls[1]) <=> failed
         /\ ~direct => /\ q.thrown = <<>>
                       /\ Len(q.nextCalls) = 1
                       /\ failed <=> (q.nextCalls[1] \in LogInErrors)
                       /\ failed <=> (q.user = Null)

\* the handler answers: it calls its callback once, or throws, or both
Responsive(h) == Len(h.calls) <= 1 /\ (Len(h.calls) = 1 \/ h.throws)

\* C38: in the callback variant a run of the serializer, deserializer or
\* info-transform chain whose handlers all answer calls the caller's done
\* exactly once, whether a handler answers synchronously or later, and
\* also when a handler throws after it has called its callback.
C38_DoneOnce ==
  (Finished(ch) /\ ch.variant = "callback"
     /\ \A i \in 1..Len(ch.stack) : Responsive(ch.stack[i])) =>
    Len(ch.done) = 1

\* ---- the round trip of a serialized user through the session ----

\* the values the serializer chain accepts as a serialized user:
\* obj || obj === 0 (authenticator.ts:338-340, 703-705)
SerializerAccepts(v) == Obtained("serialize", v)

\* the session strategy read the stored user at position i of the log and
\* went on to the deserializer with it
TreatedAsLogin(io, i) ==
  /\ i < Len(io)
  /\ io[i + 1].op = "deserializeUser"
  /\ io[i + 1].val = io[i].val

RoundTripCallback ==
  \A r \in DOMAIN rq : \A i \in 1..Len(rq[r].io) :
    (rq[r].io[i].op = "sessionUser" /\ SerializerAccepts(rq[r].io[i].val)) =>
      TreatedAsLogin(rq[r].io, i)

RoundTripAsync ==
  ax.op # "none" =>
  \A i \in 1..Len(ax.io) :
    (ax.io[i].op = "sessionUser" /\ SerializerAccepts(ax.io[i].val)) =>
      /\ TreatedAsLogin(ax.io, i)
      /\ ~IsUnauthenticated(ax.cookie)

\* C39: every value the serializer chain accepts as a serialized user, the
\* value 0 included, is treated by the session strategy on a later request
\* as a present login once it is stored in the session: the strategy hands
\* it to the deserializer chain, in agreement with isAuthenticated()
C39_RoundTrip == RoundTripCallback /\ RoundTripAsync

\* ---- the current-user slot after req.logIn ----

\* req.logIn ran for the request on behalf of the middleware, and
\* everything it started has answered
ReqLogInOver(r) ==
  /\ rq[r].log # <<>>
  /\ IoHas(rq[r].io, "logIn", TRUE) /\ ~IoHas(rq[r].io, "logOut", TRUE)
  /\ ~Truthy(options.assignProperty)
  /\ Settled(r)

\* the session was read or written by the log-in
SessionTouched(q) ==
  \E j \in 1..Len(q.io) : q.io[j].op \in {"regenerate", "serialize", "save"}

\* session persistence is off: the slot holds the user, the session was
\* left alone
SlotWithoutSession(q) ==
  /\ q.user = IoVal(q.io, "logIn")
  /\ ~SessionTouched(q)
  /\ q.thrown = <<>>

\* a step of the session log-in failed: the slot was reset and done got
\* the error
SlotAfterFailure(q) ==
  /\ q.user = Null
  /\ Len(q.nextCalls) = 1 /\ q.nextCalls[1] \in LogInErrors
  /\ q.thrown = <<>>

\* no step reported an error: done was called, and the slot holds the user
\* unless done was given an error
SlotAfterSteps(q) ==
  /\ q.thrown = <<>>
  /\ q.user \in {Null, IoVal(q.io, "logIn")}
  /\ q.user = Null <=> q.nextCalls = <<TypeError>>

\* C40: in the callback variant req.logIn(user, options, done) leaves the
\* current-user slot consistent with the outcome: when the session log-in
\* fails (no session support, regenerate, serialize or save error) the slot
\* is null when done(err) is called, so isAuthenticated() is false
\* afterwards; when it succeeds, or when options.session is false (the
\* session is then not touched), the slot holds the user when done() is
\* called.
C40_SlotConsistent ==
  \A r \in live :
    LET q == rq[r] IN
    ReqLogInOver(r) =>
      IF ~Truthy(Coalesce(options.session, Bool(TRUE)))
      THEN SlotWithoutSession(q)
      ELSE IF LogInStepFailed(q) THEN SlotAfterFailure(q)
           ELSE SlotAfterSteps(q)

====
